---- MODULE Spec2Model ----
(***************************************************************************)
(* A model of the two-way task runner of SyncFlow                          *)
(* (src/backend/core/bidirectional.py, BidirectionalTaskRunner): the state *)
(* cache and the durable state store, the two endpoints' file trees with   *)
(* their trash and backup directories, the watcher callbacks, the remote   *)
(* poller, the batch dispatcher and its workers, and the baseline pass of  *)
(* a task's first run.                                                     *)
(*                                                                         *)
(* Every section that the code runs under self._lock is one atomic action; *)
(* everything the code does outside the lock (reading the clock, stat,     *)
(* the file operations of _sync_side, the suppression mark) is a step of   *)
(* its own, so that the interleavings of the threads are those of the      *)
(* code.  The task runs with eol_normalize = 'keep' (the runner's default, *)
(* line 290), where _normalize_bytes returns its input (lines 27-28) and   *)
(* files are copied byte for byte.                                         *)
(***************************************************************************)
EXTENDS Integers, Sequences, FiniteSets, TLC

\* ------------------------------------------------------------ bounds
MaxTime == 3
MaxEdits == 2
MaxData == 3

\* ------------------------------------------------- program constants
suppress_window == 2
hash_check_max_size == 2
hash_budget_per_scan == 50

Sides == {"a", "b"}
Paths == {"x"}
Actors == Paths \cup {"init"}

Other(s) == IF s = "a" THEN "b" ELSE "a"

\* ------------------------------------------------------------- values
\* File contents are numbered 0..MaxData; 0 is the empty file (what an
\* open(..., 'wb') leaves before the first write).  Sizes are in MiB.
SizeOf(d) == IF d = 0 THEN 0 ELSE IF d = 3 THEN 3 ELSE 1

\* hashlib digest of the content: injective, never empty (0 is "no hash").
NoHash == 0
Hash(d) == d + 1

NoFile == [ex |-> FALSE, data |-> 0, mtime |-> 0]
File(d, m) == [ex |-> TRUE, data |-> d, mtime |-> m]

\* A meta dict {size, mtime, hash?}; ok = FALSE is the empty dict / None.
EmptyMeta == [ok |-> FALSE, size |-> 0, mtime |-> 0, hash |-> 0]
Meta(sz, m, h) == [ok |-> TRUE, size |-> sz, mtime |-> m, hash |-> h]

\* The default row of _handle_meta_change; has = FALSE: no row in the map.
ZeroRow ==
  [has |-> FALSE,
   meta |-> [s \in Sides |-> EmptyMeta],
   deleted |-> [s \in Sides |-> FALSE],
   seen |-> [s \in Sides |-> 0],
   last_winner |-> "none",
   last_sync_at |-> 0]

\* A _sync_side call: its position and locals; faulted: an endpoint operation
\* of the call has failed; logs: the rows the call has appended to sync_logs.
IdleSync ==
  [pc |-> "idle", path |-> "x", winner |-> "a", now |-> 0,
   wdel |-> FALSE, differs |-> FALSE,
   newmeta |-> EmptyMeta, newdel |-> FALSE, sdata |-> 0,
   faulted |-> FALSE, logs |-> <<>>]

IdleWatch ==
  [pc |-> "idle", path |-> "x", deleted |-> FALSE, meta |-> EmptyMeta, seen |-> 0]

NoDuel == [phase |-> "none", vb |-> 0, tb |-> 0]

IdlePoll ==
  [pc |-> "idle", now |-> 0, budget |-> 0, known |-> {},
   listing |-> [p \in Paths |-> EmptyMeta], todo |-> {}, seenp |-> {}]

VARIABLES
  etype,      \* endpoint type of each side: "local" or "ssh" (ssh is polled)
  clock,      \* what datetime.now() / time.time() returns
  fs,         \* fs[side][path]: the file at rel_path on the endpoint
  trash,      \* trash[side]: files under <trash_dir>/<ts>/<rel_path>
  backup,     \* backup[side]: files under <backup_dir>/<ts>/<rel_path>
  cache,      \* _state_cache
  store,      \* table sync_file_state
  suppress,   \* _suppress[side][path]: end of the suppression window, 0 none
  queue,      \* _batch_queue
  initDone,   \* _init_done
  syncing,    \* _syncing
  events,     \* watcher events not yet delivered to the callback
  wh,         \* per side, the watcher callback in flight
  poll,       \* per side, the poller's scan in flight
  bpc,        \* position of _batch_sync_loop
  toPrepare,  \* paths_to_sync not yet prepared
  ss,         \* per actor, the _sync_side call in flight
  ipc,        \* position of the thread running _init_background / sync_all
  ifiles,     \* a_files / b_files of _initial_sync
  inow,       \* now of _initial_sync
  itodo,      \* all_paths not yet visited by _initial_sync
  edits,      \* user changes made so far
  wrote,      \* ghost: wrote[side]: paths the engine last changed as loser
  clean,      \* ghost: clean[path]: no notice since the last sync was prepared
  duel        \* ghost: the users' changes so far, as far as they form a conflict

runnerVars == <<etype, clock, fs, trash, backup, cache, store, suppress, queue,
                initDone, syncing, events, wh, poll, bpc, toPrepare, ss, ipc,
                ifiles, inow, itodo, edits, wrote, clean, duel>>

\* ------------------------------------------- shutdown of a runner
\* BidirectionalTaskRunner.stop against _batch_sync_loop, with the sync
\* actions reduced to their beginning and their end.
VARIABLES
  stop_event,     \* _stop_event
  is_running,     \* is_running
  batch_event,    \* _batch_event
  batch_queue,    \* _batch_queue
  watching,       \* the watchers deliver events (until watcher.stop())
  loop_pc,        \* position of _batch_sync_loop
  paths_to_sync,  \* paths_to_sync not yet prepared
  sync_tasks,     \* sync_tasks
  futures,        \* submitted _sync_side calls that have not completed
  stop_pc,        \* position of the thread that calls stop()
  pending         \* ghost: what waited or ran when stop() was called

stopVars == <<stop_event, is_running, batch_event, batch_queue, watching, loop_pc,
              paths_to_sync, sync_tasks, futures, stop_pc, pending>>

\* ------------------------------------------------- the task manager
\* TaskManager of task_manager.py with the tasks of the database and the
\* runner objects it has constructed.
VARIABLES
  tasks,        \* tables sync_tasks, sync_task_settings, sync_endpoints
  runners,      \* TaskManager.runners: task_id -> runner (0: no entry)
  runner_obj,   \* the runner objects constructed so far
  mgr_lock,     \* TaskManager._lock: its holder, or "free"
  call          \* per calling thread, the manager call in progress

mgrVars == <<tasks, runners, runner_obj, mgr_lock, call>>

\* ------------------------------------------------ EOL normalization
\* _normalize_bytes and normalize_line_endings applied to a byte string.
VARIABLES
  orig,         \* the bytes before the first pass
  content,      \* the bytes now
  target,       \* the EOL policy: "lf", "crlf" or "keep"
  once,         \* the bytes after the first pass
  passes        \* passes made so far

eolVars == <<orig, content, target, once, passes>>

\* ------------------------------------------------ the one-way runner
\* TaskRunner with a LocalSyncEngine: a watched source directory mirrored
\* into a target directory, with the tail scan of the source.
VARIABLES
  source_root,   \* the files of the source directory
  target_root,   \* the files of the target directory
  eol_normalize, \* the EOL policy of the task
  ow_queue,      \* TaskRunner._batch_queue
  ow_batch,      \* the events of the batch the pool still has to execute
  last_mtimes,   \* TaskRunner._last_mtimes, 0 for a path without an entry
  scan,          \* the call of _scan_once in progress
  scan_stop,     \* TaskRunner._scan_stop
  ow_ops         \* changes made to the source so far

owVars == <<source_root, target_root, eol_normalize, ow_queue, ow_batch,
            last_mtimes, scan, scan_stop, ow_ops>>

\* ------------------------------------------------- the SSH transport
\* One SSHTransfer shared by the threads of a runner.
VARIABLES
  ssh,       \* SSHTransfer.ssh: a client, or 0 for None
  sftp,      \* SSHTransfer.sftp: the client the channel belongs to, or 0
  clients,   \* every SSHClient constructed so far and its state
  io_lock,   \* SSHTransfer._io_lock
  th         \* the position of every thread in its call

sshVars == <<ssh, sftp, clients, io_lock, th>>

\* ------------------------------------- a full sync and the stop signal
\* One call of sync_all of a started task, and stop() of its runner.
VARIABLES
  mode,            \* "local", "ssh": one-way task by target type; "two_way"
  runner_running,  \* is_running of the runner
  runner_stop,     \* TaskRunner._scan_stop / BidirectionalTaskRunner._stop_event
  engine_running,  \* BaseSyncEngine.is_running of the one-way engine
  engine_stop,     \* BaseSyncEngine._stop_event of the one-way engine
  walk,            \* the call of sync_all: position, paths ahead, stats
  halted           \* ghost: stop() came during the walk; paths applied since

cancelVars == <<mode, runner_running, runner_stop, engine_running, engine_stop,
                walk, halted>>

\* ------------------------------------- the remote watcher of a side
\* The RemoteInotifyWatcher of an SSH endpoint of a two-way runner, the
\* SSHTransfer of that endpoint and the poller that replaces the watcher.
VARIABLES
  link,          \* SSHTransfer.ssh of the endpoint: a client, or 0 for None
  sessions,      \* per SSHClient constructed so far: its transport is active
  ssh_client,    \* RemoteInotifyWatcher.ssh_client, 0 without a watcher
  watch_pc,      \* _watch_loop: "off", "loop", "stream", "ended"
  retry_count,   \* retry_count of _watch_loop
  poll_threads,  \* the number of _poll_loop threads of the side
  init_pc        \* _init_background: "ssh" before lines 513-540, then "done"

inoVars == <<link, sessions, ssh_client, watch_pc, retry_count, poll_threads, init_pc>>

\* Each component moves alone: what lies outside it stays as it is.
elsewhere == <<stopVars, mgrVars, eolVars, owVars, sshVars, cancelVars, inoVars>>
outsideStop == <<runnerVars, mgrVars, eolVars, owVars, sshVars, cancelVars, inoVars>>
outsideMgr == <<runnerVars, stopVars, eolVars, owVars, sshVars, cancelVars, inoVars>>
outsideEol == <<runnerVars, stopVars, mgrVars, owVars, sshVars, cancelVars, inoVars>>
outsideOw == <<runnerVars, stopVars, mgrVars, eolVars, sshVars, cancelVars, inoVars>>
outsideSsh == <<runnerVars, stopVars, mgrVars, eolVars, owVars, cancelVars, inoVars>>
outsideCancel == <<runnerVars, stopVars, mgrVars, eolVars, owVars, sshVars, inoVars>>
outsideIno == <<runnerVars, stopVars, mgrVars, eolVars, owVars, sshVars, cancelVars>>

vars == <<runnerVars, elsewhere>>

\* ------------------------------------------------------ pure helpers
GetMeta(s, p) ==
  IF fs[s][p].ex THEN Meta(SizeOf(fs[s][p].data), fs[s][p].mtime, NoHash)
  ELSE EmptyMeta

ComputeHash(s, p) == IF fs[s][p].ex THEN Hash(fs[s][p].data) ELSE NoHash

MetaChanged(old, new) ==
  IF ~old.ok /\ ~new.ok THEN FALSE
  ELSE IF ~old.ok \/ ~new.ok THEN TRUE
  ELSE IF old.hash # NoHash /\ new.hash # NoHash THEN old.hash # new.hash
  ELSE old.size # new.size \/ old.mtime # new.mtime

WithHash(m, h) == IF h # NoHash THEN [m EXCEPT !.ok = TRUE, !.hash = h] ELSE m

\* budget < 0 stands for hash_budget = None.
CanConsume(budget, units) == budget < 0 \/ budget >= units

IsSuppressed(s, p) == suppress[s][p] # 0 /\ ~(clock > suppress[s][p])
SuppressAfterCheck(s, p) ==
  IF suppress[s][p] # 0 /\ clock > suppress[s][p]
  THEN [suppress EXCEPT ![s][p] = 0] ELSE suppress
MarkSuppressed(s, p) == [suppress EXCEPT ![s][p] = clock + suppress_window]

Watched(s) == etype[s] = "local"

Emit(s, p, kind) ==
  IF Watched(s) THEN events \cup {[side |-> s, path |-> p, kind |-> kind]}
  ELSE events

Enqueue(q, p) == IF \E i \in 1..Len(q) : q[i] = p THEN q ELSE Append(q, p)
Reconcile(q, p) == IF initDone THEN Enqueue(q, p) ELSE q

\* _handle_meta_change, the section under self._lock.  The result says what
\* happened to the row: "drop" (untouched), "save" (written to the cache and
\* the store), "reconcile" (saved and the path handed to _reconcile),
\* "mutate" (the cached dict changed in place and the function returned).
\* A faulty deletion notice: the tombstone is set and the old meta is kept.
HandleDeletedKeepsMeta(row, s, seen_at) ==
  IF row.deleted[s] /\ ~row.meta[s].ok
  THEN [kind |-> "drop", row |-> row, used |-> 0]
  ELSE [kind |-> "reconcile",
        row |-> [row EXCEPT !.has = TRUE, !.deleted[s] = TRUE, !.seen[s] = seen_at],
        used |-> 0]

HandleDeleted(row, s, seen_at) ==
  IF row.deleted[s] /\ ~row.meta[s].ok
  THEN [kind |-> "drop", row |-> row, used |-> 0]
  ELSE [kind |-> "reconcile",
        row |-> [row EXCEPT !.has = TRUE, !.meta[s] = EmptyMeta,
                            !.deleted[s] = TRUE, !.seen[s] = seen_at],
        used |-> 0]

Compensate(row, s, p, meta, seen_at, budget) ==
  LET o == Other(s)
      old_meta == row.meta[s]
      size == IF meta.size # 0 THEN meta.size ELSE old_meta.size
  IN IF ~row.deleted[o] /\ row.meta[o].ok /\ size # 0
        /\ size <= hash_check_max_size /\ CanConsume(budget, 2)
     THEN LET remote_hash == ComputeHash(s, p)
              local_hash == ComputeHash(o, p)
          IN IF remote_hash # NoHash /\ local_hash # NoHash /\ remote_hash # local_hash
             THEN [kind |-> "mutate",
                   row |-> [row EXCEPT !.meta[s] = WithHash(meta, remote_hash),
                                       !.deleted[s] = FALSE, !.seen[s] = seen_at],
                   used |-> 2]
             ELSE IF old_meta.hash = NoHash /\ remote_hash # NoHash
                  THEN [kind |-> "save",
                        row |-> [row EXCEPT !.has = TRUE,
                                            !.meta[s] = WithHash(old_meta, remote_hash)],
                        used |-> 2]
                  ELSE [kind |-> "drop", row |-> row, used |-> 2]
     ELSE [kind |-> "drop", row |-> row, used |-> 0]

\* A faulty _handle_meta_change: a present notice whose content hash equals
\* the recorded hash is handed to _reconcile like any other change.
HandlePresentReconciles(row, s, p, meta, seen_at, budget) ==
  IF MetaChanged(row.meta[s], meta)
  THEN [kind |-> "reconcile",
        row |-> [row EXCEPT !.has = TRUE, !.meta[s] = WithHash(meta, ComputeHash(s, p)),
                            !.deleted[s] = FALSE, !.seen[s] = seen_at],
        used |-> 0]
  ELSE IF etype[s] = "ssh"
       THEN Compensate(row, s, p, meta, seen_at, budget)
       ELSE [kind |-> "drop", row |-> row, used |-> 0]

HandlePresent(row, s, p, meta, seen_at, budget) ==
  IF MetaChanged(row.meta[s], meta)
  THEN LET new_hash == ComputeHash(s, p)
           meta2 == WithHash(meta, new_hash)
           old_hash == row.meta[s].hash
           row2 == [row EXCEPT !.has = TRUE, !.meta[s] = meta2,
                               !.deleted[s] = FALSE, !.seen[s] = seen_at]
       IN IF old_hash # NoHash /\ new_hash # NoHash /\ old_hash = new_hash
          THEN [kind |-> "save", row |-> row2, used |-> 0]
          ELSE [kind |-> "reconcile", row |-> row2, used |-> 0]
  ELSE IF etype[s] = "ssh"
       THEN Compensate(row, s, p, meta, seen_at, budget)
       ELSE [kind |-> "drop", row |-> row, used |-> 0]

HandleMetaChange(s, p, meta, deleted, seen_at, budget) ==
  IF deleted THEN HandleDeleted(cache[p], s, seen_at)
  ELSE HandlePresent(cache[p], s, p, meta, seen_at, budget)

\* The effect of _handle_meta_change on the cache, the store and the queue.
ApplyNotice(r, p) ==
  /\ cache' = IF r.kind \in {"save", "reconcile"} \/ (r.kind = "mutate" /\ cache[p].has)
              THEN [cache EXCEPT ![p] = r.row] ELSE cache
  /\ store' = IF r.kind \in {"save", "reconcile"}
              THEN [store EXCEPT ![p] = r.row] ELSE store
  /\ queue' = IF r.kind = "reconcile" THEN Reconcile(queue, p) ELSE queue
  /\ clean' = IF r.kind # "drop" THEN [clean EXCEPT ![p] = FALSE] ELSE clean

\* _prepare_sync_task: the winner, or "none".
Changed(row, s) ==
  row.seen[s] # 0 /\ (row.last_sync_at = 0 \/ row.seen[s] > row.last_sync_at)

\* A decision that gives a tie to side b.
WinnerTieToB(row) ==
  IF ~Changed(row, "a") /\ ~Changed(row, "b") THEN "none"
  ELSE IF Changed(row, "a") /\ Changed(row, "b")
       THEN (IF row.seen["a"] > row.seen["b"] THEN "a" ELSE "b")
       ELSE IF Changed(row, "a") THEN "a" ELSE "b"

Winner(row) ==
  IF ~Changed(row, "a") /\ ~Changed(row, "b") THEN "none"
  ELSE IF Changed(row, "a") /\ Changed(row, "b")
       THEN (IF row.seen["a"] >= row.seen["b"] THEN "a" ELSE "b")
       ELSE IF Changed(row, "a") THEN "a" ELSE "b"

PrepareSyncTask(p) ==
  IF ~initDone THEN "none"
  ELSE IF ~cache[p].has THEN "none"
  ELSE Winner(cache[p])

StartSync(w, p) == [IdleSync EXCEPT !.pc = "read", !.winner = w, !.path = p]


AfterPath(todo) == IF todo = {} THEN "done" ELSE "seed"

\* What an actor's step leaves behind: the next step of the same _sync_side
\* call, or its return (to the pool, or to the loop of _initial_sync).
Continue(a, rec) ==
  /\ ss' = [ss EXCEPT ![a] = rec]
  /\ ipc' = ipc
  /\ clean' = clean

Return(a, status) ==
  /\ ss' = [ss EXCEPT ![a] =
              [IdleSync EXCEPT !.pc = IF a = "init" THEN "idle" ELSE "done",
                               !.faulted = ss[a].faulted \/ status = "failed",
                               !.logs = Append(ss[a].logs, status)]]
  /\ ipc' = IF a = "init" THEN AfterPath(itodo) ELSE ipc

\* the call returns after its commit and its log row (lines 966-978), or
\* through its except branch (lines 979-991)
Finish(a) == Return(a, "success") /\ clean' = clean

Fail(a) == Return(a, "failed") /\ clean' = [clean EXCEPT ![ss[a].path] = FALSE]

PutFile(dir, s, ts, p, d) ==
  [dir EXCEPT ![s] = {f \in @ : ~(f.ts = ts /\ f.path = p)}
                     \cup {[ts |-> ts, path |-> p, data |-> d]}]

\* ------------------------------------------------------------ actions

\* time passes
Tick ==
  /\ clock < MaxTime
  /\ clock' = clock + 1
  /\ UNCHANGED <<elsewhere, etype, fs, trash, backup, cache, store, suppress, queue,
                 initDone, syncing, events, wh, poll, bpc, toPrepare, ss, ipc,
                 ifiles, inow, itodo, edits, wrote, duel, clean>>

\* _sync_side, lines 923-933: the row is read under the lock, then the clock.
\* Of the loser's and the winner's meta the call keeps what it uses: whether
\* the loser has a live file that differs (lines 944-945).
SyncRead(a) ==
  LET t == ss[a]
      row == cache[t.path]
      w == t.winner
      l == Other(w)
      wdel == row.deleted[w]
      lmeta == row.meta[l]
      ldel == row.deleted[l]
      t2 == [t EXCEPT !.now = clock, !.wdel = wdel,
                      !.differs = lmeta.ok /\ ~ldel /\ MetaChanged(lmeta, row.meta[w])]
  IN /\ t.pc = "read"
     /\ Continue(a, IF wdel
                    THEN (IF ~ldel /\ lmeta.ok THEN [t2 EXCEPT !.pc = "trash"]
                          ELSE [t2 EXCEPT !.pc = "commit", !.newdel = TRUE])
                    ELSE [t2 EXCEPT !.pc = "copy"])
     /\ UNCHANGED <<elsewhere, etype, clock, fs, trash, backup, cache, store, suppress, queue,
                    initDone, syncing, events, wh, poll, bpc, toPrepare,
                    ifiles, inow, itodo, edits, wrote, duel>>

\* A faulty move_to_trash: the file is unlinked and nothing reaches the trash.
MoveToTrashUnlinks(l, p, ts) ==
  IF fs[l][p].ex
  THEN /\ fs' = [fs EXCEPT ![l][p] = NoFile]
       /\ trash' = trash
       /\ events' = Emit(l, p, "deleted")
  ELSE UNCHANGED <<fs, trash, events>>

\* move_to_trash (lines 114-121, 229-240): nothing happens to a missing file.
MoveToTrash(l, p, ts) ==
  IF fs[l][p].ex
  THEN /\ fs' = [fs EXCEPT ![l][p] = NoFile]
       /\ trash' = PutFile(trash, l, ts, p, fs[l][p].data)
       /\ events' = Emit(l, p, "deleted")
  ELSE UNCHANGED <<fs, trash, events>>

\* _sync_side, line 939
SyncTrash(a) ==
  LET t == ss[a]
      l == Other(t.winner)
  IN /\ t.pc = "trash"
     /\ MoveToTrash(l, t.path, t.now)
     /\ wrote' = [wrote EXCEPT ![l] = @ \cup {t.path}]
     /\ Continue(a, [t EXCEPT !.pc = "mark"])
     /\ UNCHANGED <<elsewhere, etype, clock, backup, cache, store, suppress, queue,
                    initDone, syncing, wh, poll, bpc, toPrepare,
                    ifiles, inow, itodo, edits, duel>>

\* backup_file (lines 123-130, 242-247): a copy of the loser's current file.
BackupFile(l, p, ts) ==
  IF fs[l][p].ex THEN PutFile(backup, l, ts, p, fs[l][p].data) ELSE backup

\* _sync_side, lines 944-947: the backup, then _copy_between opens the
\* winner's file and creates or truncates the loser's.  A missing winner
\* file raises, and the except branch (lines 979-991) ends the call.
SyncCopy(a) ==
  LET t == ss[a]
      w == t.winner
      l == Other(w)
      p == t.path
  IN /\ t.pc = "copy"
     /\ backup' = IF t.differs
                  THEN BackupFile(l, p, t.now) ELSE backup
     /\ IF fs[w][p].ex
        THEN /\ fs' = [fs EXCEPT ![l][p] = File(0, clock)]
             /\ events' = Emit(l, p, "changed")
             /\ wrote' = [wrote EXCEPT ![l] = @ \cup {p}]
             /\ Continue(a, [t EXCEPT !.pc = "fill", !.sdata = fs[w][p].data])
        ELSE /\ UNCHANGED <<fs, events, wrote, duel>>
             /\ Fail(a)
     /\ UNCHANGED <<elsewhere, etype, clock, trash, cache, store, suppress, queue,
                    initDone, syncing, wh, poll, bpc, toPrepare,
                    ifiles, inow, itodo, edits, duel>>

\* _copy_between, lines 993-1029: the bytes arrive.  Between two local
\* endpoints shutil.copy2 also copies the winner's mtime, and raises when the
\* winner's or the loser's file has vanished meanwhile.
SyncFill(a) ==
  LET t == ss[a]
      w == t.winner
      l == Other(w)
      p == t.path
      src == fs[w][p]
      copy2 == etype[w] = "local" /\ etype[l] = "local"
      d == IF src.ex THEN src.data ELSE t.sdata
      m == IF copy2 /\ src.ex THEN src.mtime ELSE clock
  IN /\ t.pc = "fill"
     /\ IF fs[l][p].ex
        THEN /\ fs' = [fs EXCEPT ![l][p] = File(d, m)]
             /\ events' = Emit(l, p, "changed")
        ELSE UNCHANGED <<fs, events>>
     /\ IF copy2 /\ (~src.ex \/ ~fs[l][p].ex)
        THEN Fail(a)
        ELSE Continue(a, [t EXCEPT !.pc = "mark"])
     /\ UNCHANGED <<elsewhere, etype, clock, trash, backup, cache, store, suppress, queue,
                    initDone, syncing, wh, poll, bpc, toPrepare,
                    ifiles, inow, itodo, edits, wrote, duel>>

\* _sync_side, lines 940-942 and 948-954: the suppression mark, then the
\* loser's new meta.
SyncMark(a) ==
  LET t == ss[a]
      l == Other(t.winner)
      p == t.path
  IN /\ t.pc = "mark"
     /\ suppress' = MarkSuppressed(l, p)
     /\ Continue(a, IF t.wdel
                    THEN [t EXCEPT !.pc = "commit", !.newdel = TRUE]
                    ELSE [t EXCEPT !.pc = "commit", !.newdel = FALSE,
                                   !.newmeta = WithHash(GetMeta(l, p), IF fs[l][p].ex THEN ComputeHash(l, p) ELSE NoHash)])
     /\ UNCHANGED <<elsewhere, etype, clock, fs, trash, backup, cache, store, queue,
                    initDone, syncing, events, wh, poll, bpc, toPrepare,
                    ifiles, inow, itodo, edits, wrote, duel>>

\* _sync_side, lines 956-964: the commit under the lock.
CommitRow(row, l, t) ==
  [row EXCEPT !.has = TRUE, !.meta[l] = t.newmeta, !.deleted[l] = t.newdel,
              !.seen[l] = t.now, !.last_winner = t.winner, !.last_sync_at = t.now]

\* A faulty _save_state: the upsert never reaches the table.
SaveStateSkipped(p, row) == store

\* _save_state (lines 391-402), upsert_file_state commits before it returns.
SaveState(p, row) == [store EXCEPT ![p] = row]

SyncCommit(a) ==
  LET t == ss[a]
      l == Other(t.winner)
      p == t.path
      row == CommitRow(cache[p], l, t)
  IN /\ t.pc = "commit"
     /\ cache' = [cache EXCEPT ![p] = row]
     /\ store' = SaveState(p, row)
     /\ Finish(a)
     /\ UNCHANGED <<elsewhere, etype, clock, fs, trash, backup, suppress, queue,
                    initDone, syncing, events, wh, poll, bpc, toPrepare,
                    ifiles, inow, itodo, edits, wrote, duel>>

SyncSide(a) ==
  \/ SyncRead(a)
  \/ SyncTrash(a)
  \/ SyncCopy(a)
  \/ SyncFill(a)
  \/ SyncMark(a)
  \/ SyncCommit(a)

\* ------------------------------------- failing endpoint operations
\* move_to_trash fails (line 939).  LocalEndpoint.move_to_trash lets the error
\* of shutil.move out (lines 114-121); SshEndpoint.move_to_trash catches it,
\* logs it and returns (lines 229-240), and the call goes on.
FaultTrash(a) ==
  LET t == ss[a]
      l == Other(t.winner)
  IN /\ t.pc = "trash"
     /\ fs[l][t.path].ex
     /\ IF etype[l] = "ssh"
        THEN Continue(a, [t EXCEPT !.pc = "mark", !.faulted = TRUE])
        ELSE Fail(a)
     /\ UNCHANGED <<elsewhere, etype, clock, fs, trash, backup, cache, store, suppress,
                    queue, initDone, syncing, events, wh, poll, bpc, toPrepare,
                    ifiles, inow, itodo, edits, wrote, duel>>

\* backup_file fails (line 946): LocalEndpoint.backup_file raises (lines
\* 123-130), SshEndpoint.backup_file catches the error (lines 242-247) and
\* _copy_between then overwrites the file that has no backup.
FaultBackup(a) ==
  LET t == ss[a]
      w == t.winner
      l == Other(w)
      p == t.path
  IN /\ t.pc = "copy"
     /\ t.differs /\ fs[l][p].ex
     /\ IF etype[l] = "ssh" /\ fs[w][p].ex
        THEN /\ fs' = [fs EXCEPT ![l][p] = File(0, clock)]
             /\ events' = Emit(l, p, "changed")
             /\ wrote' = [wrote EXCEPT ![l] = @ \cup {p}]
             /\ Continue(a, [t EXCEPT !.pc = "fill", !.sdata = fs[w][p].data,
                                      !.faulted = TRUE])
        ELSE /\ UNCHANGED <<fs, events, wrote>>
             /\ Fail(a)
     /\ UNCHANGED <<elsewhere, etype, clock, trash, backup, cache, store, suppress,
                    queue, initDone, syncing, wh, poll, bpc, toPrepare,
                    ifiles, inow, itodo, edits, duel>>

\* _copy_between fails before it has written anything (line 947): the call
\* ends in its except branch.
FaultCopy(a) ==
  LET t == ss[a]
      l == Other(t.winner)
  IN /\ t.pc = "copy"
     /\ backup' = IF t.differs THEN BackupFile(l, t.path, t.now) ELSE backup
     /\ Fail(a)
     /\ UNCHANGED <<elsewhere, etype, clock, fs, trash, cache, store, suppress,
                    queue, initDone, syncing, events, wh, poll, bpc, toPrepare,
                    ifiles, inow, itodo, edits, wrote, duel>>

\* _copy_between fails after it has created or truncated the loser's file:
\* the file stays as the broken transfer left it.
FaultFill(a) ==
  LET t == ss[a]
  IN /\ t.pc = "fill"
     /\ Fail(a)
     /\ UNCHANGED <<elsewhere, etype, clock, fs, trash, backup, cache, store, suppress,
                    queue, initDone, syncing, events, wh, poll, bpc, toPrepare,
                    ifiles, inow, itodo, edits, wrote, duel>>

\* get_meta of an SSH loser fails after the copy (line 949):
\* SshEndpoint.get_meta returns None for every error (lines 208-215).
FaultMeta(a) ==
  LET t == ss[a]
      l == Other(t.winner)
  IN /\ t.pc = "mark"
     /\ ~t.wdel
     /\ etype[l] = "ssh"
     /\ suppress' = MarkSuppressed(l, t.path)
     /\ Continue(a, [t EXCEPT !.pc = "commit", !.newdel = FALSE,
                              !.newmeta = EmptyMeta, !.faulted = TRUE])
     /\ UNCHANGED <<elsewhere, etype, clock, fs, trash, backup, cache, store, queue,
                    initDone, syncing, events, wh, poll, bpc, toPrepare,
                    ifiles, inow, itodo, edits, wrote, duel>>

EndpointFault(a) ==
  \/ FaultTrash(a)
  \/ FaultBackup(a)
  \/ FaultCopy(a)
  \/ FaultFill(a)
  \/ FaultMeta(a)


\* ------------------------------------------------- batch dispatcher
Range(q) == {q[i] : i \in 1..Len(q)}

\* _batch_sync_loop, lines 826-830: the queue is drained under _batch_lock.
BatchDrain ==
  /\ bpc = "wait"
  /\ queue # <<>>
  /\ toPrepare' = Range(queue)
  /\ queue' = <<>>
  /\ bpc' = "prepare"
  /\ UNCHANGED <<elsewhere, etype, clock, fs, trash, backup, cache, store, suppress,
                 initDone, syncing, events, wh, poll, ss, ipc,
                 ifiles, inow, itodo, edits, wrote, duel, clean>>

\* lines 836-840: one _prepare_sync_task
BatchPrepare(p) ==
  LET w == PrepareSyncTask(p)
  IN /\ bpc = "prepare"
     /\ p \in toPrepare
     /\ toPrepare' = toPrepare \ {p}
     /\ ss' = IF w # "none"
              THEN [ss EXCEPT ![p] = [StartSync(w, p) EXCEPT !.pc = "ready"]]
              ELSE ss
     /\ clean' = IF w # "none" THEN [clean EXCEPT ![p] = TRUE] ELSE clean
     /\ UNCHANGED <<elsewhere, etype, clock, fs, trash, backup, cache, store, suppress, queue,
                    initDone, syncing, events, wh, poll, bpc, ipc,
                    ifiles, inow, itodo, edits, wrote, duel>>

\* lines 842-857: no task, or the flag is set and the tasks go to the pool
BatchSubmit ==
  /\ bpc = "prepare"
  /\ toPrepare = {}
  /\ IF \A p \in Paths : ss[p].pc # "ready"
     THEN UNCHANGED <<syncing, ss>> /\ bpc' = "wait"
     ELSE /\ syncing' = TRUE
          /\ ss' = [a \in Actors |->
                      IF a \in Paths /\ ss[a].pc = "ready"
                      THEN [ss[a] EXCEPT !.pc = "read"] ELSE ss[a]]
          /\ bpc' = "run"
  /\ UNCHANGED <<elsewhere, etype, clock, fs, trash, backup, cache, store, suppress, queue,
                 initDone, events, wh, poll, toPrepare, ipc,
                 ifiles, inow, itodo, edits, wrote, duel, clean>>

\* lines 861-874: every future has completed; the flag is cleared
BatchFinish ==
  /\ bpc = "run"
  /\ \A p \in Paths : ss[p].pc \in {"idle", "done"}
  /\ ss' = [a \in Actors |-> IF a \in Paths THEN IdleSync ELSE ss[a]]
  /\ syncing' = FALSE
  /\ bpc' = "wait"
  /\ UNCHANGED <<elsewhere, etype, clock, fs, trash, backup, cache, store, suppress, queue,
                 initDone, events, wh, poll, toPrepare, ipc,
                 ifiles, inow, itodo, edits, wrote, duel, clean>>

\* The ghost duel follows the users' changes of a running task: "a" once
\* the first change is a write on side a; "b" once the second is a write on
\* side b (content vb, at time tb) made after the notice of the first was
\* recorded with an earlier time; "ab" once the watcher's notice of that
\* write is recorded, with a seen_at greater than a's; "off" for every
\* other history.
EndDuel == [phase |-> "off", vb |-> 0, tb |-> 0]

AfterWrite(s, p, d) ==
  IF duel.phase = "none" /\ s = "a" THEN [phase |-> "a", vb |-> 0, tb |-> 0]
  ELSE IF /\ duel.phase = "a" /\ s = "b"
          /\ \A e \in events : e.side # "a"
          /\ wh["a"].pc = "idle"
          /\ clock > cache[p].seen["a"]
       THEN [phase |-> "b", vb |-> d, tb |-> clock]
       ELSE EndDuel

AfterNotice(s, h, r) ==
  IF /\ duel.phase = "b" /\ s = "b"
     /\ ~h.deleted /\ h.meta.mtime = duel.tb /\ h.meta.size = SizeOf(duel.vb)
     /\ r.kind = "reconcile"
     /\ h.seen > cache[h.path].seen["a"]
  THEN [duel EXCEPT !.phase = "ab"] ELSE duel

\* ------------------------------------------------- watcher callbacks
\* _on_local_event, lines 638-665, up to the call of _handle_meta_change:
\* the suppression check, the stat and the clock, all outside the lock.
WatcherBegin(e) ==
  LET s == e.side
      p == e.path
      meta == GetMeta(s, p)
  IN /\ e \in events
     /\ wh[s].pc = "idle"
     /\ events' = events \ {e}
     /\ suppress' = SuppressAfterCheck(s, p)
     /\ wh' = IF IsSuppressed(s, p) THEN wh
              ELSE IF e.kind = "deleted"
                   THEN [wh EXCEPT ![s] = [pc |-> "handle", path |-> p, deleted |-> TRUE,
                                           meta |-> EmptyMeta, seen |-> clock]]
                   ELSE IF meta.ok
                        THEN [wh EXCEPT ![s] = [pc |-> "handle", path |-> p, deleted |-> FALSE,
                                                meta |-> meta, seen |-> clock]]
                        ELSE wh
     /\ UNCHANGED <<elsewhere, etype, clock, fs, trash, backup, cache, store, queue,
                    initDone, syncing, poll, bpc, toPrepare, ss, ipc,
                    ifiles, inow, itodo, edits, wrote, duel, clean>>

\* the callback's _handle_meta_change (hash_budget = None) and _reconcile
WatcherHandle(s) ==
  LET h == wh[s]
      r == HandleMetaChange(s, h.path, h.meta, h.deleted, h.seen, -1)
  IN /\ h.pc = "handle"
     /\ ApplyNotice(r, h.path)
     /\ wh' = [wh EXCEPT ![s] = IdleWatch]
     /\ duel' = AfterNotice(s, h, r)
     /\ UNCHANGED <<elsewhere, etype, clock, fs, trash, backup, suppress,
                    initDone, syncing, events, poll, bpc, toPrepare, ss, ipc,
                    ifiles, inow, itodo, edits, wrote>>

\* ------------------------------------- background initialisation
HasRows(m) == \E p \in Paths : m[p].has

\* _init_background, lines 506-507 and 543: the rows are loaded and
\* _init_done is set; the baseline runs only when no row was loaded.
InitLoad ==
  /\ ipc = "load"
  /\ cache' = store
  /\ initDone' = TRUE
  /\ ipc' = IF HasRows(store) THEN "idle" ELSE "list"
  /\ UNCHANGED <<elsewhere, etype, clock, fs, trash, backup, store, suppress, queue,
                 syncing, events, wh, poll, bpc, toPrepare, ss,
                 ifiles, inow, itodo, edits, wrote, duel, clean>>

\* _initial_sync, lines 1032-1040
InitList ==
  LET listing == [s \in Sides |-> [p \in Paths |-> GetMeta(s, p)]]
      all_paths == {p \in Paths : listing["a"][p].ok \/ listing["b"][p].ok}
  IN /\ ipc = "list"
     /\ ifiles' = listing
     /\ inow' = clock
     /\ itodo' = all_paths
     /\ ipc' = AfterPath(all_paths)
     /\ UNCHANGED <<elsewhere, etype, clock, fs, trash, backup, cache, store, suppress, queue,
                    initDone, syncing, events, wh, poll, bpc, toPrepare, ss,
                    edits, wrote, duel, clean>>

\* the three rows of _initial_sync, lines 1047-1056, 1062-1071, 1079-1088:
\* a path on a only, on b only, on both
SeedRow(a_meta, b_meta, now) ==
  IF a_meta.ok /\ ~b_meta.ok
  THEN [ZeroRow EXCEPT !.has = TRUE, !.meta["a"] = a_meta, !.deleted["b"] = TRUE,
                       !.seen["a"] = now]
  ELSE IF b_meta.ok /\ ~a_meta.ok
       THEN [ZeroRow EXCEPT !.has = TRUE, !.meta["b"] = b_meta, !.deleted["a"] = TRUE,
                            !.seen["b"] = now]
       ELSE [ZeroRow EXCEPT !.has = TRUE, !.meta["a"] = a_meta, !.meta["b"] = b_meta,
                            !.seen["a"] = now, !.seen["b"] = now, !.last_sync_at = now]

\* one turn of the loop of _initial_sync, lines 1041-1091: the row is
\* seeded under the lock; a path on one side only is then synced by this
\* same thread.
InitSeed(p) ==
  LET a_meta == ifiles["a"][p]
      b_meta == ifiles["b"][p]
      row == SeedRow(a_meta, b_meta, inow)
      rest == itodo \ {p}
  IN /\ ipc = "seed"
     /\ p \in itodo
     /\ itodo' = rest
     /\ cache' = [cache EXCEPT ![p] = row]
     /\ store' = SaveState(p, row)
     /\ IF a_meta.ok /\ b_meta.ok
        THEN /\ ipc' = AfterPath(rest)
             /\ ss' = ss
             /\ clean' = clean
        ELSE /\ ipc' = "sync"
             /\ ss' = [ss EXCEPT !["init"] = StartSync(IF a_meta.ok THEN "a" ELSE "b", p)]
             /\ clean' = [clean EXCEPT ![p] = TRUE]
     /\ UNCHANGED <<elsewhere, etype, clock, fs, trash, backup, suppress, queue,
                    initDone, syncing, events, wh, poll, bpc, toPrepare,
                    ifiles, inow, edits, wrote, duel>>

\* sync_all, lines 1093-1096: the thread of the request runs _initial_sync
\* of the runner the manager holds (task_manager.py, lines 515-517).
SyncAll ==
  /\ initDone
  /\ ipc \in {"idle", "done"}
  /\ edits < MaxEdits
  /\ edits' = edits + 1
  /\ ipc' = "list"
  /\ UNCHANGED <<elsewhere, etype, clock, fs, trash, backup, cache, store, suppress, queue,
                 initDone, syncing, events, wh, poll, bpc, toPrepare, ss,
                 ifiles, inow, itodo, wrote, duel, clean>>

\* ------------------------------------------------------ remote poller
\* _poll_loop and _scan_endpoint, lines 574-606 and transfer.iter_files: a
\* tick that finds _syncing clear and _init_done set reads the clock, copies
\* the map of rows and lists the directory.
PollStart(s) ==
  /\ etype[s] = "ssh"
  /\ poll[s].pc = "idle"
  /\ ~syncing
  /\ initDone
  /\ poll' = [poll EXCEPT ![s] =
                [pc |-> "scan", now |-> clock, budget |-> hash_budget_per_scan,
                 known |-> {p \in Paths : cache[p].has},
                 listing |-> [p \in Paths |-> GetMeta(s, p)],
                 todo |-> {p \in Paths : fs[s][p].ex},
                 seenp |-> {}]]
  /\ UNCHANGED <<elsewhere, etype, clock, fs, trash, backup, cache, store, suppress, queue,
                 initDone, syncing, events, wh, bpc, toPrepare, ss, ipc,
                 ifiles, inow, itodo, edits, wrote, duel, clean>>

PollAfter(q) ==
  IF q.todo = {} /\ q.known \ q.seenp = {} THEN IdlePoll ELSE q

\* lines 616-621: one listed file
PollVisit(s, p) ==
  LET q == poll[s]
      r == HandleMetaChange(s, p, q.listing[p], FALSE, q.now, q.budget)
  IN /\ q.pc = "scan"
     /\ p \in q.todo
     /\ ApplyNotice(r, p)
     /\ poll' = [poll EXCEPT ![s] =
                   PollAfter([q EXCEPT !.todo = @ \ {p}, !.seenp = @ \cup {p},
                                       !.budget = @ - r.used])]
     /\ UNCHANGED <<elsewhere, etype, clock, fs, trash, backup, suppress,
                    initDone, syncing, events, wh, bpc, toPrepare, ss, ipc,
                    ifiles, inow, itodo, edits, wrote, duel>>

\* lines 624-635: one known path that was not listed
PollMissing(s, p) ==
  LET q == poll[s]
      row == cache[p]
      skip == ~row.meta[s].ok /\ ~row.deleted[s] /\ row.seen[s] = 0
      r == IF skip THEN [kind |-> "drop", row |-> row, used |-> 0]
           ELSE HandleMetaChange(s, p, EmptyMeta, TRUE, q.now, q.budget)
  IN /\ q.pc = "scan"
     /\ q.todo = {}
     /\ p \in q.known \ q.seenp
     /\ ApplyNotice(r, p)
     /\ poll' = [poll EXCEPT ![s] = PollAfter([q EXCEPT !.known = @ \ {p}])]
     /\ UNCHANGED <<elsewhere, etype, clock, fs, trash, backup, suppress,
                    initDone, syncing, events, wh, bpc, toPrepare, ss, ipc,
                    ifiles, inow, itodo, edits, wrote, duel>>

\* ------------------------------------------------------------ users
\* A user writes a file of an endpoint in place.  A local file system keeps
\* mtimes finer than the clock of the model, so a write on a watched endpoint
\* never leaves the mtime the file had; an SFTP listing gives whole seconds,
\* so a write on a polled endpoint may.
UserWrite(s, p, d) ==
  /\ edits < MaxEdits
  /\ (Watched(s) /\ fs[s][p].ex) => fs[s][p].mtime # clock
  /\ edits' = edits + 1
  /\ fs' = [fs EXCEPT ![s][p] = File(d, clock)]
  /\ events' = Emit(s, p, "changed")
  /\ duel' = AfterWrite(s, p, d)
  /\ wrote' = [wrote EXCEPT ![s] = @ \ {p}]
  /\ UNCHANGED <<elsewhere, etype, clock, trash, backup, cache, store, suppress, queue,
                 initDone, syncing, wh, poll, bpc, toPrepare, ss, ipc,
                 ifiles, inow, itodo, clean>>

\* A user deletes a file of an endpoint.
UserDelete(s, p) ==
  /\ edits < MaxEdits
  /\ fs[s][p].ex
  /\ edits' = edits + 1
  /\ fs' = [fs EXCEPT ![s][p] = NoFile]
  /\ events' = Emit(s, p, "deleted")
  /\ duel' = EndDuel
  /\ wrote' = [wrote EXCEPT ![s] = @ \ {p}]
  /\ UNCHANGED <<elsewhere, etype, clock, trash, backup, cache, store, suppress, queue,
                 initDone, syncing, wh, poll, bpc, toPrepare, ss, ipc,
                 ifiles, inow, itodo, clean>>

\* ------------------------------------------------ shutdown of a runner
\* stop() (lines 442-499) runs in the thread of the caller while
\* _batch_sync_loop (lines 808-874) runs in _batch_thread.  Which task
\* _prepare_sync_task builds for a path is decided by its row; here it is an
\* input of the step.  _syncing is set exactly while the loop is at "run".
StopPaths == {"x", "y"}

NoPending == [queued |-> {}, batch |-> {}]

StopStart ==
  /\ stop_event = FALSE
  /\ is_running = TRUE
  /\ batch_event = FALSE
  /\ batch_queue = <<>>
  /\ watching = TRUE
  /\ loop_pc = "top"
  /\ paths_to_sync = {}
  /\ sync_tasks = {}
  /\ futures = {}
  /\ stop_pc = "idle"
  /\ pending = NoPending

\* _reconcile (lines 908-921), called for a notice of a watcher
Notice(p) ==
  /\ watching
  /\ batch_queue' = Enqueue(batch_queue, p)
  /\ batch_event' = TRUE
  /\ UNCHANGED <<outsideStop, stop_event, is_running, watching, loop_pc,
                 paths_to_sync, sync_tasks, futures, stop_pc, pending>>

\* line 814: while not self._stop_event.is_set()
LoopTop ==
  /\ loop_pc = "top"
  /\ loop_pc' = IF stop_event THEN "exit" ELSE "wait"
  /\ UNCHANGED <<outsideStop, stop_event, is_running, batch_event, batch_queue,
                 watching, paths_to_sync, sync_tasks, futures, stop_pc, pending>>

\* lines 816-817: the wait ends with the event or with its timeout
LoopWait ==
  /\ loop_pc = "wait"
  /\ batch_event' = FALSE
  /\ loop_pc' = "check"
  /\ UNCHANGED <<outsideStop, stop_event, is_running, batch_queue,
                 watching, paths_to_sync, sync_tasks, futures, stop_pc, pending>>

\* lines 819-823
LoopCheck ==
  /\ loop_pc = "check"
  /\ loop_pc' = IF stop_event THEN "exit" ELSE "drain"
  /\ UNCHANGED <<outsideStop, stop_event, is_running, batch_event, batch_queue,
                 watching, paths_to_sync, sync_tasks, futures, stop_pc, pending>>

\* lines 826-830, under _batch_lock
LoopDrain ==
  /\ loop_pc = "drain"
  /\ IF batch_queue = <<>>
     THEN /\ loop_pc' = "top"
          /\ UNCHANGED <<batch_queue, paths_to_sync, pending>>
     ELSE /\ paths_to_sync' = Range(batch_queue)
          /\ batch_queue' = <<>>
          /\ pending' = [queued |-> {}, batch |-> pending.batch \cup pending.queued]
          /\ loop_pc' = "prepare"
  /\ UNCHANGED <<outsideStop, stop_event, is_running, batch_event,
                 watching, sync_tasks, futures, stop_pc>>

\* lines 836-840: one _prepare_sync_task; a path without a task is done with
LoopPrepare(p, task) ==
  /\ loop_pc = "prepare"
  /\ p \in paths_to_sync
  /\ paths_to_sync' = paths_to_sync \ {p}
  /\ sync_tasks' = IF task THEN sync_tasks \cup {p} ELSE sync_tasks
  /\ pending' = IF task THEN pending ELSE [pending EXCEPT !.batch = @ \ {p}]
  /\ UNCHANGED <<outsideStop, stop_event, is_running, batch_event, batch_queue,
                 watching, loop_pc, futures, stop_pc>>

\* lines 842-857
LoopSubmit ==
  /\ loop_pc = "prepare"
  /\ paths_to_sync = {}
  /\ IF sync_tasks = {}
     THEN loop_pc' = "top" /\ UNCHANGED <<sync_tasks, futures>>
     ELSE /\ futures' = sync_tasks
          /\ sync_tasks' = {}
          /\ loop_pc' = "run"
  /\ UNCHANGED <<outsideStop, stop_event, is_running, batch_event, batch_queue,
                 watching, paths_to_sync, stop_pc, pending>>

\* a worker's _sync_side returns
WorkerDone(p) ==
  /\ loop_pc = "run"
  /\ p \in futures
  /\ futures' = futures \ {p}
  /\ pending' = [pending EXCEPT !.batch = @ \ {p}]
  /\ UNCHANGED <<outsideStop, stop_event, is_running, batch_event, batch_queue,
                 watching, loop_pc, paths_to_sync, sync_tasks, stop_pc>>

\* lines 861-874: every future has completed
LoopFinish ==
  /\ loop_pc = "run"
  /\ futures = {}
  /\ loop_pc' = "top"
  /\ UNCHANGED <<outsideStop, stop_event, is_running, batch_event, batch_queue,
                 watching, paths_to_sync, sync_tasks, futures, stop_pc, pending>>

\* stop(), lines 443-446, of a running runner
StopCall ==
  /\ stop_pc = "idle"
  /\ is_running
  /\ stop_event' = TRUE
  /\ pending' = [queued |-> Range(batch_queue),
                 batch |-> paths_to_sync \cup sync_tasks \cup futures]
  /\ stop_pc' = "watchers"
  /\ UNCHANGED <<outsideStop, is_running, batch_event, batch_queue, watching,
                 loop_pc, paths_to_sync, sync_tasks, futures>>

\* lines 449-478: the transports are closed, the watchers stopped, the
\* init, poll and cleanup threads joined
StopWatchers ==
  /\ stop_pc = "watchers"
  /\ watching' = FALSE
  /\ stop_pc' = "wake"
  /\ UNCHANGED <<outsideStop, stop_event, is_running, batch_event, batch_queue,
                 loop_pc, paths_to_sync, sync_tasks, futures, pending>>

\* line 481
StopWake ==
  /\ stop_pc = "wake"
  /\ batch_event' = TRUE
  /\ stop_pc' = "join"
  /\ UNCHANGED <<outsideStop, stop_event, is_running, batch_queue, watching,
                 loop_pc, paths_to_sync, sync_tasks, futures, pending>>

\* lines 482-498: _batch_thread.join(timeout=5) returns when the thread has
\* ended or when the five seconds are over; then is_running = False
StopJoin(timeout) ==
  /\ stop_pc = "join"
  /\ timeout \/ loop_pc = "exit"
  /\ is_running' = FALSE
  /\ stop_pc' = "done"
  /\ UNCHANGED <<outsideStop, stop_event, batch_event, batch_queue, watching,
                 loop_pc, paths_to_sync, sync_tasks, futures, pending>>

NextStop ==
  \/ \E p \in StopPaths : Notice(p)
  \/ LoopTop
  \/ LoopWait
  \/ LoopCheck
  \/ LoopDrain
  \/ \E p \in StopPaths, task \in BOOLEAN : LoopPrepare(p, task)
  \/ LoopSubmit
  \/ \E p \in StopPaths : WorkerDone(p)
  \/ LoopFinish
  \/ StopCall
  \/ StopWatchers
  \/ StopWake
  \/ \E timeout \in BOOLEAN : StopJoin(timeout)

\* ------------------------------------------------- the task manager
MaxRunners == 3

TaskIds == {1, 2}
Threads == {"t1", "t2"}

\* What the database holds for a task id: no row, a disabled task, or an
\* enabled task with its mode (sync_task_settings.mode, "one_way" without a
\* settings row) and whether sync_endpoints has rows for it.
TaskRows ==
  {[exists |-> FALSE, enabled |-> FALSE, mode |-> "one_way", endpoints |-> FALSE],
   [exists |-> TRUE, enabled |-> FALSE, mode |-> "one_way", endpoints |-> FALSE],
   [exists |-> TRUE, enabled |-> TRUE, mode |-> "one_way", endpoints |-> FALSE],
   [exists |-> TRUE, enabled |-> TRUE, mode |-> "two_way", endpoints |-> TRUE],
   [exists |-> TRUE, enabled |-> TRUE, mode |-> "two_way", endpoints |-> FALSE]}

NoCall == [pc |-> "idle", op |-> "none", next |-> "none", task |-> 1, runner |-> 0]

ManagerStart ==
  /\ tasks = [i \in TaskIds |-> CHOOSE r \in TaskRows : ~r.exists]
  /\ runners = [i \in TaskIds |-> 0]
  /\ runner_obj = <<>>
  /\ mgr_lock = "free"
  /\ call = [t \in Threads |-> NoCall]

\* runners constructed, or about to be by a call in progress
Constructions ==
  Len(runner_obj)
    + Cardinality({t \in Threads : /\ call[t].pc # "idle"
                                   /\ "start" \in {call[t].op, call[t].next}
                                   /\ call[t].runner = 0})

\* A thread calls start_task, stop_task or restart_task (stop_task, then
\* start_task, lines 499-502).
Call(t, op, id) ==
  /\ call[t].pc = "idle"
  /\ op \in {"start", "restart"} => Constructions < MaxRunners
  /\ call' = [call EXCEPT ![t] =
                [NoCall EXCEPT !.pc = "acquire", !.task = id,
                               !.op = IF op = "restart" THEN "stop" ELSE op,
                               !.next = IF op = "restart" THEN "start" ELSE "none"]]
  /\ UNCHANGED <<outsideMgr, tasks, runners, runner_obj, mgr_lock>>

\* A call that ignores the holder of the lock.
CanAcquireAlways(t) == TRUE

\* with self._lock (lines 415, 487): threading.Lock is free
CanAcquire(t) == mgr_lock = "free"

Acquire(t) ==
  /\ call[t].pc = "acquire"
  /\ CanAcquire(t)
  /\ mgr_lock' = t
  /\ call' = [call EXCEPT ![t].pc = "check"]
  /\ UNCHANGED <<outsideMgr, tasks, runners, runner_obj>>

\* The with block is left, by return or by an exception; restart_task goes
\* on to its start_task only when stop_task returned.
Leave(t, raised) ==
  IF call[t].next = "start" /\ ~raised
  THEN [call[t] EXCEPT !.pc = "acquire", !.op = "start", !.next = "none", !.runner = 0]
  ELSE NoCall

\* start_task, lines 416-418
StartCheck(t) ==
  LET c == call[t]
  IN /\ c.pc = "check" /\ c.op = "start"
     /\ IF runners[c.task] # 0
        THEN /\ call' = [call EXCEPT ![t] = Leave(t, FALSE)]
             /\ mgr_lock' = "free"
        ELSE /\ call' = [call EXCEPT ![t].pc = "load"]
             /\ mgr_lock' = mgr_lock
     /\ UNCHANGED <<outsideMgr, tasks, runners, runner_obj>>

\* start_task, lines 421-469: the task is loaded, its mode selected and the
\* runner constructed; a two-way task without sync_endpoints rows gets its
\* endpoints from the columns of the task (lines 436-451).
StartLoad(t) ==
  LET c == call[t]
      task == tasks[c.task]
  IN /\ c.pc = "load"
     /\ IF ~task.exists \/ ~task.enabled
        THEN /\ call' = [call EXCEPT ![t] = Leave(t, TRUE)]
             /\ mgr_lock' = "free"
             /\ runner_obj' = runner_obj
        ELSE /\ runner_obj' = Append(runner_obj,
                                [task |-> c.task, mode |-> task.mode,
                                 running |-> FALSE, starts |-> 0])
             /\ call' = [call EXCEPT ![t].pc = "run", ![t].runner = Len(runner_obj) + 1]
             /\ mgr_lock' = mgr_lock
     /\ UNCHANGED <<outsideMgr, tasks, runners>>

\* line 471: runner.start() returns, or raises with nothing left running
\* (TaskRunner.start stops itself, lines 317-320)
StartRun(t, ok) ==
  LET c == call[t]
  IN /\ c.pc = "run"
     /\ IF ok
        THEN /\ runner_obj' = [runner_obj EXCEPT ![c.runner].running = TRUE,
                                                 ![c.runner].starts = @ + 1]
             /\ call' = [call EXCEPT ![t].pc = "register"]
             /\ mgr_lock' = mgr_lock
        ELSE /\ runner_obj' = runner_obj
             /\ call' = [call EXCEPT ![t] = Leave(t, TRUE)]
             /\ mgr_lock' = "free"
     /\ UNCHANGED <<outsideMgr, tasks, runners>>

\* lines 472-478
StartRegister(t) ==
  LET c == call[t]
  IN /\ c.pc = "register"
     /\ runners' = [runners EXCEPT ![c.task] = c.runner]
     /\ call' = [call EXCEPT ![t] = Leave(t, FALSE)]
     /\ mgr_lock' = "free"
     /\ UNCHANGED <<outsideMgr, tasks, runner_obj>>

\* stop_task, lines 487-497
StopTask(t) ==
  LET c == call[t]
      r == runners[c.task]
  IN /\ c.pc = "check" /\ c.op = "stop"
     /\ IF r # 0
        THEN /\ runner_obj' = [runner_obj EXCEPT ![r].running = FALSE]
             /\ runners' = [runners EXCEPT ![c.task] = 0]
        ELSE UNCHANGED <<runner_obj, runners>>
     /\ call' = [call EXCEPT ![t] = Leave(t, FALSE)]
     /\ mgr_lock' = "free"
     /\ UNCHANGED <<outsideMgr, tasks>>

NextManager ==
  \/ \E t \in Threads, op \in {"start", "stop", "restart"}, id \in TaskIds : Call(t, op, id)
  \/ \E t \in Threads : Acquire(t)
  \/ \E t \in Threads : StartCheck(t)
  \/ \E t \in Threads : StartLoad(t)
  \/ \E t \in Threads, ok \in BOOLEAN : StartRun(t, ok)
  \/ \E t \in Threads : StartRegister(t)
  \/ \E t \in Threads : StopTask(t)

\* sync_task_all, lines 515-517 and 519-566: self.runners is read without
\* the lock; the registered runner runs sync_all, or the task is loaded and a
\* temporary runner of its mode is constructed and runs sync_all.
SyncTaskAll(t, id) ==
  /\ call[t].pc = "idle"
  /\ call' = [call EXCEPT ![t] =
                IF runners[id] # 0
                THEN [NoCall EXCEPT !.pc = "sync", !.op = "sync", !.task = id,
                                    !.runner = runners[id]]
                ELSE IF tasks[id].exists
                     THEN [NoCall EXCEPT !.pc = "temp", !.op = "sync", !.task = id]
                     ELSE NoCall]
  /\ UNCHANGED <<outsideMgr, tasks, runners, runner_obj, mgr_lock>>

\* sync_all of the runner returns its statistics
SyncTaskReturn(t) ==
  /\ call[t].pc \in {"sync", "temp"}
  /\ call' = [call EXCEPT ![t] = NoCall]
  /\ UNCHANGED <<outsideMgr, tasks, runners, runner_obj, mgr_lock>>

NextSyncTask ==
  \/ NextManager
  \/ \E t \in Threads, id \in TaskIds : SyncTaskAll(t, id)
  \/ \E t \in Threads : SyncTaskReturn(t)

\* ------------------------------------------------ EOL normalization
MaxLen == 4
MaxPasses == 2

CR == 13
LF == 10
Bytes == {CR, LF, 65}

RECURSIVE SeqsUpTo(_)
SeqsUpTo(n) ==
  IF n = 0 THEN {<<>>}
  ELSE LET shorter == SeqsUpTo(n - 1)
       IN shorter \cup {Append(q, b) : q \in {r \in shorter : Len(r) = n - 1}, b \in Bytes}

\* bytes.replace(b'\r\n', b'\n'): left to right, without overlap
RECURSIVE ReplaceCRLF(_)
ReplaceCRLF(x) ==
  IF x = <<>> THEN <<>>
  ELSE IF Len(x) >= 2 /\ x[1] = CR /\ x[2] = LF
       THEN <<LF>> \o ReplaceCRLF(SubSeq(x, 3, Len(x)))
       ELSE <<x[1]>> \o ReplaceCRLF(Tail(x))

\* bytes.replace(<one byte>, new)
RECURSIVE ReplaceByte(_, _, _)
ReplaceByte(x, old, new) ==
  IF x = <<>> THEN <<>>
  ELSE (IF x[1] = old THEN new ELSE <<x[1]>>) \o ReplaceByte(Tail(x), old, new)

\* A normalization that turns every LF into CR LF without unifying first.
NormalizeNaive(x, t) ==
  IF t = "keep" THEN x
  ELSE IF t = "crlf" THEN ReplaceByte(x, LF, <<CR, LF>>)
       ELSE ReplaceByte(ReplaceCRLF(x), CR, <<LF>>)

\* _normalize_bytes (bidirectional.py, lines 26-33)
NormalizeBytes(x, t) ==
  IF t = "keep" THEN x
  ELSE LET normalized == ReplaceByte(ReplaceCRLF(x), CR, <<LF>>)
       IN IF t = "crlf" THEN ReplaceByte(normalized, LF, <<CR, LF>>)
          ELSE normalized

\* normalize_line_endings with in_place = False (eol_normalizer.py, lines
\* 118-172): the bytes it returns for a file that holds x
NormalizeLineEndings(x, t) ==
  IF t = "keep" THEN x
  ELSE LET unified == ReplaceByte(ReplaceCRLF(x), CR, <<LF>>)
       IN IF t = "crlf" THEN ReplaceByte(unified, LF, <<CR, LF>>)
          ELSE unified

EolStart ==
  /\ orig = <<>>
  /\ content = <<>>
  /\ target = "keep"
  /\ once = <<>>
  /\ passes = 0

AfterPass(x) ==
  /\ passes < MaxPasses
  /\ content' = x
  /\ once' = IF passes = 0 THEN x ELSE once
  /\ passes' = passes + 1
  /\ UNCHANGED <<outsideEol, orig, target>>

\* the two-way runner normalizes the bytes it copies or hashes
PassBytes == AfterPass(NormalizeBytes(content, target))

\* the one-way engine normalizes the file it copies
PassFile == AfterPass(NormalizeLineEndings(content, target))

NextEol == PassBytes \/ PassFile

\* ------------------------------------------------ the one-way runner
MaxOps == 2

\* a text file, a binary file, and a file the exclude rule "*.tmp" filters
OwPaths == {"a.txt", "b.png", "c.tmp"}
OwContents == {<<65, CR, LF>>, <<66, LF>>}

NoOwFile == [ex |-> FALSE, data |-> <<>>, mtime |-> 0]
NoEvent == [type |-> "none", rel |-> "", dest |-> ""]
NoScan ==
  [pc |-> "idle", listing |-> {}, current |-> [p \in OwPaths |-> 0],
   dels |-> {}, applied |-> {}, before |-> [p \in OwPaths |-> 0], ops |-> 0]

\* should_exclude with exclude_patterns = ["*.tmp"]
ShouldExclude(p) == p = "c.tmp"

\* SyncEventHandler._should_process; no extension list is configured
ShouldProcess(p) == ~ShouldExclude(p)

\* is_text_file: by extension, and for an unknown extension by the absence
\* of a null byte, which no content of OwContents holds
IsTextFile(p) == p # "b.png"

OwStart ==
  /\ source_root = [p \in OwPaths |-> NoOwFile]
  /\ target_root = [p \in OwPaths |-> NoOwFile]
  /\ eol_normalize = "lf"
  /\ ow_queue = <<>>
  /\ ow_batch = {}
  /\ last_mtimes = [p \in OwPaths |-> 0]
  /\ scan = NoScan
  /\ scan_stop = FALSE
  /\ ow_ops = 0

\* TaskRunner._on_file_change: the event joins the batch queue
OnFileChange(q, type, p, d) == Append(q, [type |-> type, rel |-> p, dest |-> d])

\* a program creates or rewrites a source file; on_created / on_modified
OwWrite(p, d) ==
  /\ ow_ops < MaxOps
  /\ ow_ops' = ow_ops + 1
  /\ source_root' = [source_root EXCEPT ![p] =
                       [ex |-> TRUE, data |-> d, mtime |-> ow_ops + 2]]
  /\ ow_queue' = IF ShouldProcess(p)
                 THEN OnFileChange(ow_queue,
                              IF source_root[p].ex THEN "modified" ELSE "created",
                              p, "")
                 ELSE ow_queue
  /\ UNCHANGED <<outsideOw, target_root, eol_normalize, ow_batch, last_mtimes,
                 scan, scan_stop>>

\* a program deletes a source file; on_deleted applies no filter
OwRemove(p) ==
  /\ ow_ops < MaxOps
  /\ source_root[p].ex
  /\ ow_ops' = ow_ops + 1
  /\ source_root' = [source_root EXCEPT ![p] = NoOwFile]
  /\ ow_queue' = OnFileChange(ow_queue, "deleted", p, "")
  /\ UNCHANGED <<outsideOw, target_root, eol_normalize, ow_batch, last_mtimes,
                 scan, scan_stop>>

\* a program renames a source file, which keeps its mtime; on_moved
OwRename(p, q) ==
  /\ ow_ops < MaxOps
  /\ p # q
  /\ source_root[p].ex
  /\ ow_ops' = ow_ops + 1
  /\ source_root' = [source_root EXCEPT ![q] = source_root[p], ![p] = NoOwFile]
  /\ ow_queue' = IF ~ShouldExclude(p) \/ ShouldProcess(q)
                 THEN OnFileChange(ow_queue, "moved", p, q)
                 ELSE ow_queue
  /\ UNCHANGED <<outsideOw, target_root, eol_normalize, ow_batch, last_mtimes,
                 scan, scan_stop>>

\* LocalSyncEngine._handle_copy; a missing source file raises
HandleCopy(tgt, p) ==
  IF ~source_root[p].ex THEN tgt
  ELSE [tgt EXCEPT ![p] =
          [ex |-> TRUE,
           data |-> IF eol_normalize # "keep" /\ IsTextFile(p)
                    THEN NormalizeLineEndings(source_root[p].data, eol_normalize)
                    ELSE source_root[p].data,
           mtime |-> 0]]

\* LocalSyncEngine._handle_delete
HandleDelete(tgt, p) == [tgt EXCEPT ![p] = NoOwFile]

\* A move that copies the new source path when the old target is absent.
HandleMoveOrCopy(tgt, p, q) ==
  IF ~tgt[p].ex THEN HandleCopy(tgt, q)
  ELSE [tgt EXCEPT ![q] = tgt[p], ![p] = NoOwFile]

\* LocalSyncEngine._handle_move: ignored when the old target is absent
HandleMove(tgt, p, q) ==
  IF ~tgt[p].ex THEN tgt
  ELSE [tgt EXCEPT ![q] = tgt[p], ![p] = NoOwFile]

\* LocalSyncEngine.sync_file; the engine of a TaskRunner is never started,
\* so its stop flag is never set
SyncFile(tgt, type, p, q) ==
  IF type = "deleted" THEN HandleDelete(tgt, p)
  ELSE IF type = "moved" THEN HandleMove(tgt, p, q)
       ELSE HandleCopy(tgt, p)

\* A faulty de-duplication: the first event of every rel_path is kept.
DedupeKeepsFirst(q) ==
  {q[i] : i \in {j \in DOMAIN q : \A k \in 1..(j - 1) : q[k].rel # q[j].rel}}

\* _batch_sync_loop keeps the last event of every relative path
Dedupe(q) ==
  {q[i] : i \in {j \in DOMAIN q : \A k \in (j + 1)..Len(q) : q[k].rel # q[j].rel}}

\* TaskRunner._lock is held by _scan_once from its start to its return
ScanHoldsLock == scan.pc \in {"entered", "walk", "dels"}

\* _batch_sync_loop takes the queue once the previous batch is executed
BatchTake ==
  /\ ~scan_stop
  /\ ow_queue # <<>>
  /\ ow_batch = {}
  /\ ow_batch' = Dedupe(ow_queue)
  /\ ow_queue' = <<>>
  /\ UNCHANGED <<outsideOw, source_root, target_root, eol_normalize,
                 last_mtimes, scan, scan_stop, ow_ops>>

\* _sync_single_file of one event of the batch, under TaskRunner._lock
Execute(p) ==
  /\ ~ScanHoldsLock
  /\ \E ev \in ow_batch :
       /\ ev.rel = p
       /\ target_root' = SyncFile(target_root, ev.type, ev.rel, ev.dest)
       /\ ow_batch' = ow_batch \ {ev}
  /\ UNCHANGED <<outsideOw, source_root, eol_normalize, ow_queue, last_mtimes,
                 scan, scan_stop, ow_ops>>

\* _scan_loop enters _scan_once
ScanBegin ==
  /\ ~scan_stop
  /\ ~ScanHoldsLock
  /\ scan' = [NoScan EXCEPT !.pc = "entered", !.before = last_mtimes,
                            !.ops = ow_ops]
  /\ UNCHANGED <<outsideOw, source_root, target_root, eol_normalize, ow_queue,
                 ow_batch, last_mtimes, scan_stop, ow_ops>>

\* os.walk lists the directory, unless the stop signal is set
ScanList ==
  /\ scan.pc = "entered"
  /\ scan' = IF scan_stop THEN [scan EXCEPT !.pc = "interrupted"]
             ELSE [scan EXCEPT !.pc = "walk",
                     !.listing = {p \in OwPaths :
                                    source_root[p].ex /\ ~ShouldExclude(p)}]
  /\ UNCHANGED <<outsideOw, source_root, target_root, eol_normalize, ow_queue,
                 ow_batch, last_mtimes, scan_stop, ow_ops>>

\* A scan that reports new paths only.
ScanEventNewOnly(last, mtime) ==
  IF last = 0 THEN "created" ELSE "none"

\* the event _scan_once raises for a path with this cache entry and mtime
ScanEvent(last, mtime) ==
  IF last = 0 THEN "created"
  ELSE IF mtime # last THEN "modified" ELSE "none"

\* one file of the listing: stat, compare with the cache, sync
ScanVisit(p) ==
  /\ scan.pc = "walk"
  /\ p \in scan.listing
  /\ IF ~source_root[p].ex
     THEN /\ scan' = [scan EXCEPT !.listing = @ \ {p}]
          /\ UNCHANGED target_root
     ELSE LET mtime == source_root[p].mtime
              type == ScanEvent(last_mtimes[p], mtime)
          IN /\ scan' = [scan EXCEPT !.listing = @ \ {p},
                                     !.current[p] = mtime,
                                     !.applied = IF type = "none" THEN @
                                                 ELSE @ \cup {<<type, p>>}]
             /\ target_root' = IF type = "none" THEN target_root
                               ELSE SyncFile(target_root, type, p, "")
  /\ UNCHANGED <<outsideOw, source_root, eol_normalize, ow_queue, ow_batch,
                 last_mtimes, scan_stop, ow_ops>>

\* the walk is over: the deletion loop starts over the cached paths
ScanWalked ==
  /\ scan.pc = "walk"
  /\ scan.listing = {}
  /\ scan' = [scan EXCEPT !.pc = "dels",
                          !.dels = {p \in OwPaths : last_mtimes[p] # 0}]
  /\ UNCHANGED <<outsideOw, source_root, target_root, eol_normalize, ow_queue,
                 ow_batch, last_mtimes, scan_stop, ow_ops>>

\* one cached path of the deletion loop
ScanDelete(p) ==
  /\ scan.pc = "dels"
  /\ p \in scan.dels
  /\ IF scan_stop
     THEN /\ scan' = [scan EXCEPT !.pc = "interrupted"]
          /\ UNCHANGED target_root
     ELSE IF scan.current[p] = 0
          THEN /\ scan' = [scan EXCEPT !.dels = @ \ {p},
                                       !.applied = @ \cup {<<"deleted", p>>}]
               /\ target_root' = SyncFile(target_root, "deleted", p, "")
          ELSE /\ scan' = [scan EXCEPT !.dels = @ \ {p}]
               /\ UNCHANGED target_root
  /\ UNCHANGED <<outsideOw, source_root, eol_normalize, ow_queue, ow_batch,
                 last_mtimes, scan_stop, ow_ops>>

\* self._last_mtimes = current
ScanEnd ==
  /\ scan.pc = "dels"
  /\ scan.dels = {}
  /\ last_mtimes' = scan.current
  /\ scan' = [scan EXCEPT !.pc = "done"]
  /\ UNCHANGED <<outsideOw, source_root, target_root, eol_normalize, ow_queue,
                 ow_batch, scan_stop, ow_ops>>

\* TaskRunner.stop sets the stop signal
OwStop ==
  /\ ~scan_stop
  /\ scan_stop' = TRUE
  /\ UNCHANGED <<outsideOw, source_root, target_root, eol_normalize, ow_queue,
                 ow_batch, last_mtimes, scan, ow_ops>>

NextOneWay ==
  \/ \E p \in OwPaths, d \in OwContents : OwWrite(p, d)
  \/ \E p \in OwPaths : OwRemove(p)
  \/ \E p, q \in OwPaths : OwRename(p, q)
  \/ BatchTake
  \/ \E p \in OwPaths : Execute(p)
  \/ ScanBegin
  \/ ScanList
  \/ \E p \in OwPaths : ScanVisit(p)
  \/ ScanWalked
  \/ \E p \in OwPaths : ScanDelete(p)
  \/ ScanEnd
  \/ OwStop

\* ------------------------ the one-way runner with lost events and faults
\* watchdog raises no event for a write (an atomic replace, a checkout)
OwWriteLost(p, d) ==
  /\ ow_ops < MaxOps
  /\ ow_ops' = ow_ops + 1
  /\ source_root' = [source_root EXCEPT ![p] =
                       [ex |-> TRUE, data |-> d, mtime |-> ow_ops + 2]]
  /\ UNCHANGED <<outsideOw, target_root, eol_normalize, ow_queue, ow_batch,
                 last_mtimes, scan, scan_stop>>

\* watchdog raises no event for a deletion
OwRemoveLost(p) ==
  /\ ow_ops < MaxOps
  /\ source_root[p].ex
  /\ ow_ops' = ow_ops + 1
  /\ source_root' = [source_root EXCEPT ![p] = NoOwFile]
  /\ UNCHANGED <<outsideOw, target_root, eol_normalize, ow_queue, ow_batch,
                 last_mtimes, scan, scan_stop>>

\* _sync_single_file (task_manager.py, lines 246-280) of an event whose
\* sync_file raises: the error is logged and the event is done with.  The
\* faults are counted with the changes of the source, which bounds them.
ExecuteFails(p) ==
  /\ ~ScanHoldsLock
  /\ ow_ops < MaxOps
  /\ ow_ops' = ow_ops + 1
  /\ \E ev \in ow_batch : ev.rel = p /\ ow_batch' = ow_batch \ {ev}
  /\ UNCHANGED <<outsideOw, source_root, target_root, eol_normalize, ow_queue,
                 last_mtimes, scan, scan_stop>>

\* _scan_once, lines 128-143, for a file whose sync_file raises: the mtime
\* is in `current` before the call, the error is logged, the walk goes on.
ScanVisitFails(p) ==
  /\ scan.pc = "walk"
  /\ p \in scan.listing
  /\ source_root[p].ex
  /\ ScanEvent(last_mtimes[p], source_root[p].mtime) # "none"
  /\ ow_ops < MaxOps
  /\ ow_ops' = ow_ops + 1
  /\ scan' = [scan EXCEPT !.listing = @ \ {p}, !.current[p] = source_root[p].mtime]
  /\ UNCHANGED <<outsideOw, source_root, target_root, eol_normalize, ow_queue,
                 ow_batch, last_mtimes, scan_stop>>

\* the started task: the dispatcher and the tail scan
Dispatching ==
  \/ BatchTake
  \/ \E p \in OwPaths : Execute(p)

TailScan ==
  \/ ScanBegin
  \/ ScanList
  \/ \E p \in OwPaths : ScanVisit(p)
  \/ ScanWalked
  \/ \E p \in OwPaths : ScanDelete(p)
  \/ ScanEnd

NextLossy ==
  \/ \E p \in OwPaths, d \in OwContents : OwWrite(p, d)
  \/ \E p \in OwPaths : OwRemove(p)
  \/ \E p \in OwPaths, d \in OwContents : OwWriteLost(p, d)
  \/ \E p \in OwPaths : OwRemoveLost(p)
  \/ \E p \in OwPaths : ExecuteFails(p)
  \/ \E p \in OwPaths : ScanVisitFails(p)
  \/ Dispatching
  \/ TailScan

\* ------------------------------------------------- the SSH transport
MaxClients == 3
SshThreads == {"poller", "worker"}
Clients == 1..MaxClients

\* the transport after SshEndpoint connected it: one client, one channel
SshStart ==
  /\ ssh = 1
  /\ sftp = 1
  /\ clients = [c \in Clients |-> IF c = 1 THEN "live" ELSE "unborn"]
  /\ io_lock = [owner |-> "none", depth |-> 0]
  /\ th = [t \in SshThreads |-> "idle"]

At(t, pc) == th[t] = pc
Goto(t, pc) == th' = [th EXCEPT ![t] = pc]

\* the network drops the connection of a client
Drop(c) ==
  /\ clients[c] = "live"
  /\ clients' = [clients EXCEPT ![c] = "dead"]
  /\ UNCHANGED <<outsideSsh, ssh, sftp, io_lock, th>>

\* a thread calls an operation of the transport, which starts with
\* ensure_connected
Operation(t) ==
  /\ At(t, "idle")
  /\ Goto(t, "check")
  /\ UNCHANGED <<outsideSsh, ssh, sftp, clients, io_lock>>

\* ensure_connected: return when the transport is active, else reconnect
EnsureCheck(t) ==
  /\ At(t, "check")
  /\ IF ssh # 0 /\ clients[ssh] = "live"
     THEN Goto(t, "ensured")
     ELSE Goto(t, "close_sftp")
  /\ UNCHANGED <<outsideSsh, ssh, sftp, clients, io_lock>>

\* close: the channel
CloseSftp(t) ==
  /\ At(t, "close_sftp")
  /\ sftp' = 0
  /\ Goto(t, "close_ssh")
  /\ UNCHANGED <<outsideSsh, ssh, clients, io_lock>>

\* close: self.ssh.close()
CloseSsh(t) ==
  /\ At(t, "close_ssh")
  /\ IF ssh # 0
     THEN /\ clients' = [clients EXCEPT ![ssh] = "closed"]
          /\ Goto(t, "clear_ssh")
     ELSE /\ UNCHANGED clients
          /\ Goto(t, "connect")
  /\ UNCHANGED <<outsideSsh, ssh, sftp, io_lock>>

\* close: self.ssh = None
ClearSsh(t) ==
  /\ At(t, "clear_ssh")
  /\ ssh' = 0
  /\ Goto(t, "connect")
  /\ UNCHANGED <<outsideSsh, sftp, clients, io_lock>>

\* connect: nothing to do when a client is set
ConnectCheck(t) ==
  /\ At(t, "connect")
  /\ IF ssh # 0 THEN Goto(t, "ensured") ELSE Goto(t, "construct")
  /\ UNCHANGED <<outsideSsh, ssh, sftp, clients, io_lock>>

\* connect: self.ssh = SSHClient()
Construct(t) ==
  /\ At(t, "construct")
  /\ \E c \in Clients :
       /\ clients[c] = "unborn"
       /\ \A d \in Clients : clients[d] = "unborn" => c <= d
       /\ ssh' = c
       /\ clients' = [clients EXCEPT ![c] = "new"]
  /\ Goto(t, "dial")
  /\ UNCHANGED <<outsideSsh, sftp, io_lock>>

\* connect: self.ssh.connect(...), which may fail
Dial(t, ok) ==
  /\ At(t, "dial")
  /\ IF ssh # 0 /\ ok
     THEN /\ clients' = [clients EXCEPT ![ssh] = "live"]
          /\ Goto(t, "open_sftp")
     ELSE /\ UNCHANGED clients
          /\ Goto(t, "except")
  /\ UNCHANGED <<outsideSsh, ssh, sftp, io_lock>>

\* connect: self.sftp = self.ssh.open_sftp()
OpenSftp(t) ==
  /\ At(t, "open_sftp")
  /\ IF ssh # 0 /\ clients[ssh] = "live"
     THEN /\ sftp' = ssh
          /\ Goto(t, "ensured")
     ELSE /\ UNCHANGED sftp
          /\ Goto(t, "except")
  /\ UNCHANGED <<outsideSsh, ssh, clients, io_lock>>

\* connect: the except branch forgets both and raises ConnectionError
ConnectFailed(t) ==
  /\ At(t, "except")
  /\ ssh' = 0
  /\ sftp' = 0
  /\ Goto(t, "idle")
  /\ UNCHANGED <<outsideSsh, clients, io_lock>>

\* A lock that lets every thread in.
IoLockIgnored(t) == TRUE

\* threading.RLock: free, or held by the same thread
IoLockFree(t) == io_lock.owner \in {"none", t}

\* with self._io_lock:
IoAcquire(t) ==
  /\ At(t, "ensured")
  /\ IoLockFree(t)
  /\ io_lock' = [owner |-> t, depth |-> io_lock.depth + 1]
  /\ Goto(t, "call")
  /\ UNCHANGED <<outsideSsh, ssh, sftp, clients>>

IoRelease(t) ==
  io_lock' = IF io_lock.depth <= 1 THEN [owner |-> "none", depth |-> 0]
             ELSE [io_lock EXCEPT !.depth = @ - 1]

\* self.sftp.<call>(...): None has no such attribute
SftpEnter(t) ==
  /\ At(t, "call")
  /\ IF sftp # 0
     THEN Goto(t, "in_sftp") /\ UNCHANGED io_lock
     ELSE Goto(t, "idle") /\ IoRelease(t)
  /\ UNCHANGED <<outsideSsh, ssh, sftp, clients>>

\* the session call returns or raises, and the with block ends
SftpReturn(t) ==
  /\ At(t, "in_sftp")
  /\ Goto(t, "idle")
  /\ IoRelease(t)
  /\ UNCHANGED <<outsideSsh, ssh, sftp, clients>>

NextSsh ==
  \/ \E c \in Clients : Drop(c)
  \/ \E t \in SshThreads :
       \/ Operation(t)
       \/ EnsureCheck(t)
       \/ CloseSftp(t)
       \/ CloseSsh(t)
       \/ ClearSsh(t)
       \/ ConnectCheck(t)
       \/ Construct(t)
       \/ \E ok \in BOOLEAN : Dial(t, ok)
       \/ OpenSftp(t)
       \/ ConnectFailed(t)
       \/ IoAcquire(t)
       \/ SftpEnter(t)
       \/ SftpReturn(t)

\* ------------------------------------- a full sync and the stop signal
Modes == {"local", "ssh", "two_way"}

NoStats == [synced |-> 0, skipped |-> 0, failed |-> 0, aborted |-> FALSE]

NoWalk == [pc |-> "idle", todo |-> {}, stats |-> NoStats]

NotHalted == [stopped |-> FALSE, applied |-> 0]

\* TaskRunner.start (task_manager.py, lines 282-313) constructs the engine
\* and, for an SSH target, connects it; it runs its own watcher and never
\* calls the engine's start(), so the engine's is_running keeps the False of
\* its constructor (sync_engine.py, line 43).
StartedTask(m) ==
  /\ mode = m
  /\ runner_running = TRUE
  /\ runner_stop = FALSE
  /\ engine_running = FALSE
  /\ engine_stop = FALSE
  /\ walk = NoWalk
  /\ halted = NotHalted

CancelAtRest == StartedTask("local")

CancelStart == \E m \in Modes : StartedTask(m)

\* should_stop (sync_engine.py, lines 85-86) for a one-way engine; for a
\* two-way runner the test of _stop_event in _initial_sync
ShouldStop == IF mode = "two_way" THEN runner_stop ELSE engine_stop

\* BaseSyncEngine.stop (sync_engine.py, lines 73-83): nothing is done for an
\* engine whose is_running is False.
EngineStop ==
  IF engine_running
  THEN engine_stop' = TRUE /\ engine_running' = FALSE
  ELSE UNCHANGED <<engine_stop, engine_running>>

\* sync_all is called (task_manager.py, lines 515-517 and 354-385;
\* bidirectional.py, lines 1093-1095): the statistics start at zero and the
\* walk has every path ahead.
SyncAllCall ==
  /\ walk.pc = "idle"
  /\ runner_running
  /\ walk' = [pc |-> "walk", todo |-> OwPaths, stats |-> NoStats]
  /\ UNCHANGED <<outsideCancel, mode, runner_running, runner_stop,
                 engine_running, engine_stop, halted>>

\* One file of the walk of a one-way engine (sync_engine.py, lines 250-279
\* and 441-477): the stop test, the exclusion rules, then the copy or the
\* upload, which succeeds or raises.
WalkFile(p, ok) ==
  /\ mode # "two_way"
  /\ walk.pc = "walk"
  /\ p \in walk.todo
  /\ IF ShouldStop
     THEN /\ walk' = [walk EXCEPT !.pc = "return", !.stats.aborted = TRUE]
          /\ halted' = halted
     ELSE IF ShouldExclude(p)
          THEN /\ walk' = [walk EXCEPT !.todo = @ \ {p}, !.stats.skipped = @ + 1]
               /\ halted' = halted
          ELSE /\ walk' = [walk EXCEPT !.todo = @ \ {p},
                                       !.stats.synced = IF ok THEN @ + 1 ELSE @,
                                       !.stats.failed = IF ok THEN @ ELSE @ + 1]
               /\ halted' = IF halted.stopped
                            THEN [halted EXCEPT !.applied = @ + 1] ELSE halted
  /\ UNCHANGED <<outsideCancel, mode, runner_running, runner_stop,
                 engine_running, engine_stop>>

\* One path of the loop of _initial_sync (bidirectional.py, lines 1041-1091):
\* the stop test returns without a word in the statistics; a path on both
\* sides is seeded, a path on one side is synced by _sync_side, which counts
\* it as synced or as failed (lines 976-977, 990-991).
WalkPath(p, outcome) ==
  /\ mode = "two_way"
  /\ walk.pc = "walk"
  /\ p \in walk.todo
  /\ IF ShouldStop
     THEN /\ walk' = [walk EXCEPT !.pc = "return"]
          /\ halted' = halted
     ELSE /\ walk' = [walk EXCEPT !.todo = @ \ {p},
                        !.stats.synced = IF outcome = "synced" THEN @ + 1 ELSE @,
                        !.stats.failed = IF outcome = "failed" THEN @ + 1 ELSE @]
          /\ halted' = IF halted.stopped
                       THEN [halted EXCEPT !.applied = @ + 1] ELSE halted
  /\ UNCHANGED <<outsideCancel, mode, runner_running, runner_stop,
                 engine_running, engine_stop>>

\* the walk has no path left (sync_engine.py, lines 281-282, 479-480;
\* bidirectional.py, line 1096), or it was left by its stop test
WalkReturn ==
  /\ walk.pc = "return" \/ (walk.pc = "walk" /\ walk.todo = {})
  /\ walk' = [walk EXCEPT !.pc = "returned"]
  /\ UNCHANGED <<outsideCancel, mode, runner_running, runner_stop,
                 engine_running, engine_stop, halted>>

\* stop() of the runner.  TaskRunner.stop (task_manager.py, lines 322-350)
\* sets _scan_stop and calls the engine's stop(); BidirectionalTaskRunner.stop
\* (bidirectional.py, lines 442-498) sets _stop_event.
RunnerStop ==
  /\ runner_running
  /\ runner_stop' = TRUE
  /\ runner_running' = FALSE
  /\ IF mode = "two_way"
     THEN UNCHANGED <<engine_stop, engine_running>>
     ELSE EngineStop
  /\ halted' = IF walk.pc = "walk" /\ walk.todo # {}
               THEN [halted EXCEPT !.stopped = TRUE] ELSE halted
  /\ UNCHANGED <<outsideCancel, mode, walk>>

NextCancel ==
  \/ SyncAllCall
  \/ \E p \in OwPaths, ok \in BOOLEAN : WalkFile(p, ok)
  \/ \E p \in OwPaths, outcome \in {"seeded", "synced", "failed"} : WalkPath(p, outcome)
  \/ WalkReturn
  \/ RunnerStop

\* ------------------------------------- the remote watcher of a side
MaxSessions == 4
max_retries == 5

\* start() of the runner has connected the endpoint (lines 414-416).
InoStart ==
  /\ link = 1
  /\ sessions = <<TRUE>>
  /\ ssh_client = 0
  /\ watch_pc = "off"
  /\ retry_count = 0
  /\ poll_threads = 0
  /\ init_pc = "ssh"

Active(c) == c # 0 /\ sessions[c]

\* _init_background, lines 513-540: the watcher is constructed on the client
\* the transport holds now; the poller is started only when the watcher did
\* not start (inotifywait missing, or the check failed).
StartDetection(available) ==
  /\ init_pc = "ssh"
  /\ init_pc' = "done"
  /\ IF available /\ Active(link)
     THEN /\ ssh_client' = link
          /\ watch_pc' = "loop"
          /\ poll_threads' = poll_threads
     ELSE /\ poll_threads' = poll_threads + 1
          /\ UNCHANGED <<ssh_client, watch_pc>>
  /\ UNCHANGED <<outsideIno, link, sessions, retry_count>>

\* _watch_loop, lines 185-203: with no active transport on its client the
\* loop sleeps and starts again; otherwise it opens a session and runs
\* inotifywait in it.
WatchOpen ==
  /\ watch_pc = "loop"
  /\ IF Active(ssh_client)
     THEN watch_pc' = "stream" /\ retry_count' = 0
     ELSE UNCHANGED <<watch_pc, retry_count>>
  /\ UNCHANGED <<outsideIno, link, sessions, ssh_client, poll_threads, init_pc>>

\* lines 239-248: open_session or exec_command raises; after max_retries
\* failures in a row the thread ends.
WatchOpenFails ==
  /\ watch_pc = "loop"
  /\ Active(ssh_client)
  /\ retry_count' = retry_count + 1
  /\ watch_pc' = IF retry_count + 1 >= max_retries THEN "ended" ELSE "loop"
  /\ UNCHANGED <<outsideIno, link, sessions, ssh_client, poll_threads, init_pc>>

\* lines 206-237 and 250-256: the command exits or its channel breaks; the
\* channel is closed and the outer loop starts again.
WatchExit ==
  /\ watch_pc = "stream"
  /\ Active(ssh_client)
  /\ watch_pc' = "loop"
  /\ UNCHANGED <<outsideIno, link, sessions, ssh_client, retry_count, poll_threads,
                 init_pc>>

\* the same lines when the transport of the client is gone
WatchBroken ==
  /\ watch_pc = "stream"
  /\ ~Active(ssh_client)
  /\ watch_pc' = "loop"
  /\ UNCHANGED <<outsideIno, link, sessions, ssh_client, retry_count, poll_threads,
                 init_pc>>

\* The network drops the session of the transport.
SessionLost ==
  /\ Active(link)
  /\ Len(sessions) < MaxSessions
  /\ sessions' = [sessions EXCEPT ![link] = FALSE]
  /\ UNCHANGED <<outsideIno, link, ssh_client, watch_pc, retry_count, poll_threads,
                 init_pc>>

\* SSHTransfer.ensure_connected (transfer.py, lines 124-134), called by a
\* worker or the poller before an operation: a transport that is not active
\* is closed (lines 107-122) and connect() (lines 50-105) builds a new
\* SSHClient; when the connection fails ssh is None again.
Reconnect(ok) ==
  /\ ~Active(link)
  /\ Len(sessions) < MaxSessions
  /\ sessions' = Append(sessions, ok)
  /\ link' = IF ok THEN Len(sessions) + 1 ELSE 0
  /\ UNCHANGED <<outsideIno, ssh_client, watch_pc, retry_count, poll_threads, init_pc>>

NextIno ==
  \/ \E available \in BOOLEAN : StartDetection(available)
  \/ WatchOpen
  \/ WatchOpenFails
  \/ WatchExit
  \/ WatchBroken
  \/ SessionLost
  \/ \E ok \in BOOLEAN : Reconnect(ok)

\* ------------------------------------------- first run of a task
NoRows == [p \in Paths |-> ZeroRow]

InitCommon ==
  /\ clock = 1
  /\ trash = [s \in Sides |-> {}]
  /\ backup = [s \in Sides |-> {}]
  /\ suppress = [s \in Sides |-> [p \in Paths |-> 0]]
  /\ queue = <<>>
  /\ syncing = FALSE
  /\ events = {}
  /\ wh = [s \in Sides |-> IdleWatch]
  /\ poll = [s \in Sides |-> IdlePoll]
  /\ bpc = "wait"
  /\ toPrepare = {}
  /\ ss = [a \in Actors |-> IdleSync]
  /\ ifiles = [s \in Sides |-> [p \in Paths |-> EmptyMeta]]
  /\ inow = 0
  /\ itodo = {}
  /\ wrote = [s \in Sides |-> {}]
  /\ clean = [p \in Paths |-> FALSE]
  /\ duel = NoDuel

\* The files the users have put on an endpoint before the task first runs.
\* All their changes precede the run: the first run is followed undisturbed.
OldFiles == {NoFile} \cup {File(d, 1) : d \in 1..2}

InitBaseline ==
  /\ InitCommon
  /\ edits = MaxEdits
  /\ etype = [s \in Sides |-> "local"]
  /\ fs \in [Sides -> [Paths -> OldFiles]]
  /\ cache = NoRows
  /\ store = NoRows
  /\ initDone = FALSE
  /\ ipc = "load"

\* --------------------------------------------- a running, converged task
ConvergedRow ==
  [has |-> TRUE,
   meta |-> [s \in Sides |-> Meta(SizeOf(1), 1, Hash(1))],
   deleted |-> [s \in Sides |-> FALSE],
   seen |-> [s \in Sides |-> 1],
   last_winner |-> "a",
   last_sync_at |-> 1]

InitRunning ==
  /\ InitCommon
  /\ edits = 0
  /\ etype \in {[s \in Sides |-> "local"],
                [s \in Sides |-> IF s = "a" THEN "local" ELSE "ssh"]}
  /\ fs = [s \in Sides |-> [p \in Paths |-> File(1, 1)]]
  /\ cache = [p \in Paths |-> ConvergedRow]
  /\ store = cache
  /\ initDone = TRUE
  /\ ipc = "idle"

\* a two-way runner that takes no step: a task between two empty local roots
RunnerAtRest ==
  /\ InitCommon
  /\ edits = 0
  /\ etype = [s \in Sides |-> "local"]
  /\ fs = [s \in Sides |-> [p \in Paths |-> NoFile]]
  /\ cache = NoRows
  /\ store = NoRows
  /\ initDone = TRUE
  /\ ipc = "idle"

\* every component but c is at rest
OthersAtRest(c) ==
  /\ IF c = "runner" THEN TRUE ELSE RunnerAtRest
  /\ IF c = "stop" THEN TRUE ELSE StopStart
  /\ IF c = "manager" THEN TRUE ELSE ManagerStart
  /\ IF c = "eol" THEN TRUE ELSE EolStart
  /\ IF c = "oneway" THEN TRUE ELSE OwStart
  /\ IF c = "ssh" THEN TRUE ELSE SshStart
  /\ IF c = "cancel" THEN TRUE ELSE CancelAtRest
  /\ IF c = "inotify" THEN TRUE ELSE InoStart

ElsewhereAtRest == OthersAtRest("runner")

Init == (InitRunning \/ InitBaseline) /\ ElsewhereAtRest

\* the first run: _init_background and the baseline
FirstRun ==
  \/ InitLoad
  \/ InitList
  \/ \E p \in Paths : InitSeed(p)

\* the users, the watchers, the poller, the dispatcher and its workers
Running ==
  \/ Tick
  \/ \E s \in Sides, p \in Paths, d \in 1..MaxData : UserWrite(s, p, d)
  \/ \E s \in Sides, p \in Paths : UserDelete(s, p)
  \/ \E a \in Actors : SyncSide(a)
  \/ \E e \in events : WatcherBegin(e)
  \/ \E s \in Sides : WatcherHandle(s)
  \/ \E s \in Sides : PollStart(s)
  \/ \E s \in Sides, p \in Paths : PollVisit(s, p)
  \/ \E s \in Sides, p \in Paths : PollMissing(s, p)
  \/ BatchDrain
  \/ \E p \in Paths : BatchPrepare(p)
  \/ BatchSubmit
  \/ BatchFinish

Next == FirstRun \/ Running

Spec == Init /\ [][Next]_vars

\* ------------------------- a running task whose endpoints may fail
\* The users make one change less than in Spec; any endpoint operation of a
\* sync action may fail.
InitFail ==
  /\ InitCommon
  /\ edits = IF MaxEdits > 0 THEN 1 ELSE 0
  /\ etype \in {[s \in Sides |-> "local"],
                [s \in Sides |-> IF s = "a" THEN "local" ELSE "ssh"]}
  /\ fs = [s \in Sides |-> [p \in Paths |-> File(1, 1)]]
  /\ cache = [p \in Paths |-> ConvergedRow]
  /\ store = cache
  /\ initDone = TRUE
  /\ ipc = "idle"
  /\ ElsewhereAtRest

NextFail == Running \/ \E a \in Paths : EndpointFault(a)

SpecFail == InitFail /\ [][NextFail]_vars

\* ------------------- a running task with full syncs asked for by users
\* A task between two local endpoints: both sides are watched and no poller
\* thread runs.  The task was started with its rows loaded, so the baseline never runs on
\* its own: every turn of _initial_sync belongs to a call of sync_all.  While
\* the task was stopped a user may have removed the file of side b.  A request
\* for a full sync counts among the users' changes.
InitFull ==
  /\ InitCommon
  /\ edits = IF MaxEdits > 0 THEN 1 ELSE 0
  /\ etype = [s \in Sides |-> "local"]
  /\ fs \in {f \in [Sides -> [Paths -> {NoFile, File(1, 1)}]] :
               \A p \in Paths : f["a"][p].ex}
  /\ cache = [p \in Paths |-> ConvergedRow]
  /\ store = cache
  /\ initDone = TRUE
  /\ ipc = "idle"
  /\ ElsewhereAtRest

FullSync ==
  \/ SyncAll
  \/ InitList
  \/ \E p \in Paths : InitSeed(p)

NextFull ==
  \/ FullSync
  \/ Tick
  \/ \E s \in Sides, p \in Paths, d \in 1..MaxData : UserWrite(s, p, d)
  \/ \E s \in Sides, p \in Paths : UserDelete(s, p)
  \/ \E a \in Actors : SyncSide(a)
  \/ \E e \in events : WatcherBegin(e)
  \/ \E s \in Sides : WatcherHandle(s)
  \/ BatchDrain
  \/ \E p \in Paths : BatchPrepare(p)
  \/ BatchSubmit
  \/ BatchFinish

SpecFull == InitFull /\ [][NextFull]_vars

\* ------------------------------ the first run of a task, users at work
\* start() (lines 404-440) starts the local watchers before the thread of
\* _init_background: the users may change a file while the rows are not
\* loaded yet.  The two roots hold the same file; the users leave the roots
\* alone once the rows are loaded, and the run is followed for one tick of
\* the clock less than a running task.
InitStartup ==
  /\ InitCommon
  /\ edits = IF MaxEdits > 0 THEN MaxEdits - 1 ELSE 0
  /\ etype = [s \in Sides |-> "local"]
  /\ fs = [s \in Sides |-> [p \in Paths |-> File(1, 1)]]
  /\ cache = NoRows
  /\ store = NoRows
  /\ initDone = FALSE
  /\ ipc = "load"
  /\ ElsewhereAtRest

NotLoaded == ipc = "load"

NextStartup ==
  \/ FirstRun
  \/ clock + 1 < MaxTime /\ Tick
  \/ NotLoaded /\ \E s \in Sides, p \in Paths, d \in 1..MaxData : UserWrite(s, p, d)
  \/ NotLoaded /\ \E s \in Sides, p \in Paths : UserDelete(s, p)
  \/ \E a \in Actors : SyncSide(a)
  \/ \E e \in events : WatcherBegin(e)
  \/ \E s \in Sides : WatcherHandle(s)
  \/ BatchDrain
  \/ \E p \in Paths : BatchPrepare(p)
  \/ BatchSubmit
  \/ BatchFinish

SpecStartup == InitStartup /\ [][NextStartup]_vars


\* The threads of a started runner are scheduled for ever: the thread of
\* _init_background, the watcher callbacks, the dispatcher and its workers.
Dispatcher ==
  \/ BatchDrain
  \/ \E p \in Paths : BatchPrepare(p)
  \/ BatchSubmit
  \/ BatchFinish

Callbacks ==
  \/ \E e \in events : WatcherBegin(e)
  \/ \E s \in Sides : WatcherHandle(s)

SpecStranded ==
  /\ InitStartup
  /\ [][NextStartup]_vars
  /\ WF_vars(FirstRun)
  /\ WF_vars(Callbacks)
  /\ WF_vars(Dispatcher)
  /\ \A a \in Actors : WF_vars(SyncSide(a))

\* ----------------------- a full sync of a task with a change pending
\* The task was converged when a user changed x; the watcher has recorded
\* the notice and handed the path to the dispatcher, which has not taken
\* it yet: b's file deleted, or a's file rewritten.
PendingDeletion ==
  /\ fs = [s \in Sides |-> [p \in Paths |-> IF s = "a" THEN File(1, 1) ELSE NoFile]]
  /\ cache = [p \in Paths |->
                [ConvergedRow EXCEPT !.meta["b"] = EmptyMeta, !.deleted["b"] = TRUE,
                                     !.seen["b"] = 2]]

PendingWrite ==
  /\ fs = [s \in Sides |-> [p \in Paths |-> IF s = "a" THEN File(2, 2) ELSE File(1, 1)]]
  /\ cache = [p \in Paths |->
                [ConvergedRow EXCEPT !.meta["a"] = Meta(SizeOf(2), 2, Hash(2)),
                                     !.seen["a"] = 2]]

InitPending ==
  /\ clock = 2
  /\ trash = [s \in Sides |-> {}]
  /\ backup = [s \in Sides |-> {}]
  /\ suppress = [s \in Sides |-> [p \in Paths |-> 0]]
  /\ queue \in {<<p>> : p \in Paths}
  /\ syncing = FALSE
  /\ events = {}
  /\ wh = [s \in Sides |-> IdleWatch]
  /\ poll = [s \in Sides |-> IdlePoll]
  /\ bpc = "wait"
  /\ toPrepare = {}
  /\ ss = [a \in Actors |-> IdleSync]
  /\ ifiles = [s \in Sides |-> [p \in Paths |-> EmptyMeta]]
  /\ inow = 0
  /\ itodo = {}
  /\ wrote = [s \in Sides |-> {}]
  /\ clean = [p \in Paths |-> FALSE]
  /\ duel = EndDuel
  /\ edits = IF MaxEdits > 0 THEN 1 ELSE 0
  /\ etype = [s \in Sides |-> "local"]
  /\ PendingDeletion \/ PendingWrite
  /\ store = cache
  /\ initDone = TRUE
  /\ ipc = "idle"
  /\ ElsewhereAtRest

SpecPending == InitPending /\ [][NextFull]_vars

InitStop == StopStart /\ OthersAtRest("stop")

SpecStop == InitStop /\ [][NextStop]_vars

InitManager ==
  /\ tasks \in [TaskIds -> TaskRows]
  /\ runners = [i \in TaskIds |-> 0]
  /\ runner_obj = <<>>
  /\ mgr_lock = "free"
  /\ call = [t \in Threads |-> NoCall]
  /\ OthersAtRest("manager")

SpecManager == InitManager /\ [][NextManager]_vars

SpecSyncTask == InitManager /\ [][NextSyncTask]_vars

InitEol ==
  /\ orig \in SeqsUpTo(MaxLen)
  /\ content = orig
  /\ target \in {"lf", "crlf", "keep"}
  /\ once = <<>>
  /\ passes = 0
  /\ OthersAtRest("eol")

SpecEol == InitEol /\ [][NextEol]_vars

\* a started one-way task whose target mirrors its source
Seeded == [p \in OwPaths |-> [ex |-> TRUE, data |-> <<65, CR, LF>>, mtime |-> 1]]

InitOneWay ==
  /\ eol_normalize \in {"lf", "crlf", "keep"}
  /\ source_root \in {[p \in OwPaths |-> NoOwFile], Seeded}
  /\ target_root = [p \in OwPaths |->
                      IF ShouldExclude(p) THEN NoOwFile
                      ELSE HandleCopy(source_root, p)[p]]
  /\ ow_queue = <<>>
  /\ ow_batch = {}
  /\ last_mtimes = [p \in OwPaths |-> 0]
  /\ scan = NoScan
  /\ scan_stop = FALSE
  /\ ow_ops = 0
  /\ OthersAtRest("oneway")

SpecOneWay == InitOneWay /\ [][NextOneWay]_vars


\* The task keeps running; the dispatcher and the scan loop get their turns
\* (the scan sleeps between two passes, so a worker obtains the lock).
InitLossy ==
  /\ InitOneWay
  /\ eol_normalize = "lf"

SpecLossy ==
  /\ InitLossy
  /\ [][NextLossy]_vars
  /\ WF_vars(TailScan)
  /\ WF_vars(BatchTake)
  /\ \A p \in OwPaths : SF_vars(Execute(p))
InitSsh == SshStart /\ OthersAtRest("ssh")

SpecSsh == InitSsh /\ [][NextSsh]_vars

InitCancel == CancelStart /\ OthersAtRest("cancel")

SpecCancel == InitCancel /\ [][NextCancel]_vars

InitIno == InoStart /\ OthersAtRest("inotify")

\* The thread of the watcher and the thread of _init_background are
\* scheduled for ever, and the workers keep calling ensure_connected.
SpecIno ==
  /\ InitIno
  /\ [][NextIno]_vars
  /\ WF_vars(\E available \in BOOLEAN : StartDetection(available))
  /\ WF_vars(WatchOpen)
  /\ WF_vars(WatchBroken)
  /\ WF_vars(Reconnect(TRUE))

\* ============================================================ properties
\* A _sync_side call that has read the row and has not yet returned.
InFlight(a) == ss[a].pc \in {"trash", "copy", "fill", "mark", "commit"}

\* No _sync_side call for the path is prepared, submitted or running.
NoSyncOf(p) == \A a \in Actors : ss[a].pc \in {"idle", "done"} \/ ss[a].path # p

\* Nothing is left to do: no event waits, no callback or scan is in flight,
\* the queue is empty, the dispatcher waits, the baseline is over.  Between
\* two watched (local) endpoints only the users can change such a state.
Quiescent ==
  /\ events = {}
  /\ \A s \in Sides : wh[s].pc = "idle" /\ poll[s].pc = "idle"
  /\ queue = <<>>
  /\ bpc = "wait"
  /\ \A a \in Actors : ss[a].pc = "idle"
  /\ ipc \in {"idle", "done"}

BothWatched == \A s \in Sides : Watched(s)

\* Under eol_normalize = 'keep': the same bytes on both sides, or no file on either.
Identical(p) ==
  /\ fs["a"][p].ex = fs["b"][p].ex
  /\ fs["a"][p].ex => fs["a"][p].data = fs["b"][p].data

\* C1: Convergence.  Once the files have stopped changing and the watchers,
\* the dispatcher and the baseline have nothing left to do, every path holds
\* identical content on both endpoints or is absent on both.  Stated for two
\* watched endpoints, where a quiescent state can only be left by a user.
Convergence == (Quiescent /\ BothWatched) => \A p \in Paths : Identical(p)

\* C2: Last writer wins.  From a converged path, when side a is written and
\* side b is written later, b's notice carrying the greater seen_at, the task
\* comes to rest with both endpoints holding the content written on b.
LastWriterWins ==
  (Quiescent /\ BothWatched /\ duel.phase = "ab")
    => \A p \in Paths, s \in Sides : fs[s][p].ex /\ fs[s][p].data = duel.vb

\* The poller visits a listed file whose size and mtime equal the recorded
\* meta, of at most hash_check_max_size, with budget left, whose content
\* differs from the other side's live file.
HiddenChange(s, p) ==
  LET row == cache[p]
      m == poll[s].listing[p]
      o == Other(s)
  IN /\ etype[s] = "ssh"
     /\ m.ok /\ ~MetaChanged(row.meta[s], m)
     /\ ~row.deleted[o] /\ row.meta[o].ok
     /\ m.size # 0 /\ m.size <= hash_check_max_size
     /\ CanConsume(poll[s].budget, 2)
     /\ fs[s][p].ex /\ fs[o][p].ex
     /\ fs[s][p].data # fs[o][p].data

\* C3: Coarse-mtime compensation.  A scan that meets such a hidden change
\* records the new hash and seen_at for the remote side, persists the row
\* and enqueues the path.
CoarseMtimeCompensation ==
  [][\A s \in Sides, p \in Paths :
       (/\ poll[s].pc = "scan" /\ p \in poll[s].todo /\ p \notin poll'[s].todo
        /\ HiddenChange(s, p))
         => /\ cache'[p].meta[s].hash = ComputeHash(s, p)
            /\ cache'[p].seen[s] = poll[s].now
            /\ store'[p] = cache'[p]
            /\ p \in Range(queue')]_vars

\* C4: Per-path mutual exclusion.  No two actors (a dispatcher worker, the
\* baseline pass) are inside _sync_side for the same path at once.
PerPathMutualExclusion ==
  \A a1, a2 \in Actors :
    (a1 # a2 /\ InFlight(a1) /\ InFlight(a2)) => ss[a1].path # ss[a2].path

\* C5: Monotonic seen-at.  No step lowers a_seen_at or b_seen_at of a row.
MonotonicSeenAt ==
  [][\A p \in Paths, s \in Sides : cache'[p].seen[s] >= cache[p].seen[s]]_vars

\* C6: No self-loop.  While the last change of a path on endpoint X is the
\* engine's own (X was the loser of a sync and no user has touched the path
\* on X since), no sync action runs for that path with winner X.
NoSelfLoop ==
  \A a \in Actors :
    (ss[a].pc \in {"read", "trash", "copy", "fill", "mark", "commit"})
      => ss[a].path \notin wrote[ss[a].winner]

InitialBaseline ==
  (ipc = "done" /\ Quiescent)
    => \A p \in Paths :
         (ifiles["a"][p].ok \/ ifiles["b"][p].ok)
           => /\ cache[p].has /\ cache[p].last_sync_at # 0
              /\ fs["a"][p].ex /\ fs["b"][p].ex
              /\ (ifiles["a"][p].ok # ifiles["b"][p].ok)
                   => (fs["a"][p].data = fs["b"][p].data /\ fs["a"][p].data # 0)

\* C9: Durability ordering.  The step that commits a sync action leaves the
\* committed row, last_sync_at included, in the store; after every step the
\* cache and the store hold the same last_sync_at, so a notice that loads
\* the row later finds the new value in both.
DurabilityOrdering ==
  [][\A p \in Paths :
       /\ cache'[p].last_sync_at = store'[p].last_sync_at
       /\ \A a \in Actors :
            (ss[a].pc = "commit" /\ ss'[a].pc # "commit" /\ ss[a].path = p)
              => /\ store'[p] = cache'[p]
                 /\ store'[p].last_sync_at = ss[a].now
                 /\ store'[p].last_winner = ss[a].winner]_vars

\* A watcher notice is about to load a row that a sync action committed.
NoticeAfterCommit ==
  \E s \in Sides :
    /\ wh[s].pc = "handle"
    /\ cache[wh[s].path].last_sync_at > 1
    /\ store[wh[s].path].last_sync_at = cache[wh[s].path].last_sync_at
    /\ NoSyncOf(wh[s].path)

\* C10: Reconciliation idempotence.  When the last sync action of a path
\* has committed and no notice has touched the row since it was prepared,
\* dispatching the path again selects no winner, touches no file and
\* leaves the row as it is.
ReconciliationIdempotence ==
  [][\A p \in Paths :
       (/\ clean[p] /\ NoSyncOf(p)
        /\ bpc = "prepare" /\ p \in toPrepare /\ p \notin toPrepare')
         => /\ ss' = ss
            /\ fs' = fs /\ trash' = trash /\ backup' = backup
            /\ cache' = cache /\ store' = store]_vars

\* The dispatcher is about to prepare a path again whose sync action has
\* committed and whose row no notice has touched since.
StaleEnqueue ==
  \E p \in Paths :
    /\ clean[p] /\ NoSyncOf(p)
    /\ bpc = "prepare" /\ p \in toPrepare
    /\ cache[p].last_sync_at > 1

\* C11: Row invariant.  In every row of the cache and of the store, for each
\* side, the meta is never non-empty while the tombstone is set, whichever
\* operation wrote the row last (a notice, the hash fill-in, a sync commit,
\* the seeding of the baseline).
RowInvariant ==
  \A p \in Paths, s \in Sides :
    /\ ~(cache[p].meta[s].ok /\ cache[p].deleted[s])
    /\ ~(store[p].meta[s].ok /\ store[p].deleted[s])

\* A row that a deletion notice and then a sync commit have written: the
\* tombstone is set on both sides.
TombstonedRow ==
  \E p \in Paths :
    /\ cache[p].has /\ cache[p].last_sync_at > 1
    /\ \A s \in Sides : cache[p].deleted[s]
    /\ NoSyncOf(p)

\* C12: Shutdown drains work.  When stop() has declared the runner stopped
\* (is_running is false), every path that was in the batch queue and every
\* path of a batch in flight when stop() was called has been executed.
ShutdownDrains ==
  ~is_running => (pending.queued = {} /\ pending.batch = {})

\* C13: Worker error containment.  Once an endpoint operation of a sync
\* action has failed, no step of the action changes the row of its path in
\* the cache or in the store, and the action returns having appended exactly
\* one row to sync_logs, of status 'failed'.
WorkerErrorContainment ==
  [][\A a \in Actors :
       LET t == ss[a]
           p == t.path
       IN (InFlight(a) /\ ss'[a] # t /\ (t.faulted \/ ss'[a].faulted))
            => /\ cache'[p] = cache[p]
               /\ store'[p] = store[p]
               /\ (ss'[a].pc \in {"idle", "done"}) => ss'[a].logs = <<"failed">>]_vars

\* the running runners of a task
RunningFor(i) ==
  {r \in 1..Len(runner_obj) : runner_obj[r].task = i /\ runner_obj[r].running}

\* C14: Task registry.  Under every interleaving of start_task, stop_task
\* and restart_task calls, a task has at most one running runner; a runner
\* that is registered has returned from its start(), was started once and is
\* running; and a running runner is registered, or is being registered by
\* the call that holds the lock.
TaskRegistry ==
  \A i \in TaskIds :
    /\ Cardinality(RunningFor(i)) <= 1
    /\ runners[i] # 0
         => /\ runner_obj[runners[i]].task = i
            /\ runner_obj[runners[i]].running
            /\ runner_obj[runners[i]].starts = 1
    /\ \A r \in RunningFor(i) :
         \/ runners[i] = r
         \/ \E t \in Threads : /\ mgr_lock = t /\ call[t].pc = "register"
                               /\ call[t].runner = r

\* start_task for a task that is registered is at its test of the registry
\* while another thread waits for the lock.
StartOfRegistered ==
  \E t, u \in Threads :
    /\ t # u
    /\ call[t].pc = "check" /\ call[t].op = "start" /\ runners[call[t].task] # 0
    /\ call[u].pc = "acquire" /\ call[u].task = call[t].task
    /\ Len(runner_obj) >= 2

\* C15: Invalid two-way configuration is rejected.  For a task whose mode is
\* two_way and which has no stored endpoint descriptors, no runner is ever
\* constructed, registered or running.
ConfigInvalidRejected ==
  \A i \in TaskIds :
    (tasks[i].mode = "two_way" /\ ~tasks[i].endpoints)
      => /\ runners[i] = 0
         /\ \A r \in 1..Len(runner_obj) : runner_obj[r].task # i

Has(x, b) == \E i \in 1..Len(x) : x[i] = b

\* every LF follows a CR and every CR precedes an LF
PairedCRLF(x) ==
  \A i \in 1..Len(x) :
    /\ x[i] = LF => (i > 1 /\ x[i - 1] = CR)
    /\ x[i] = CR => (i < Len(x) /\ x[i + 1] = LF)

\* C18: EOL normalization is idempotent.  A second pass under the same
\* policy returns what the first pass returned; after a pass under lf no CR
\* is left, after a pass under crlf every LF follows a CR and every CR
\* precedes an LF, and under keep the bytes are those of the input.
EolIdempotence ==
  /\ passes = MaxPasses => content = once
  /\ passes >= 1
       => /\ target = "lf" => ~Has(content, CR)
          /\ target = "crlf" => PairedCRLF(content)
          /\ target = "keep" => content = orig

\* A string with a CR LF pair, a lone CR and a lone LF has been normalized
\* twice under crlf.
MixedNormalizedTwice ==
  /\ passes = MaxPasses
  /\ target = "crlf"
  /\ orig = <<CR, LF, CR, 65>> \/ orig = <<LF, CR, LF, CR>>
  /\ content # orig

\* what sync_file has to leave in the target for one event
Mirrored(ev) ==
  IF ev.type = "deleted" THEN ~target_root'[ev.rel].ex
  ELSE IF ev.type = "moved"
       THEN (source_root[ev.dest].ex /\ ~source_root[ev.rel].ex)
            => /\ ~target_root'[ev.rel].ex
               /\ target_root'[ev.dest].ex
               /\ target_root[ev.rel].ex
                  => target_root'[ev.dest].data = target_root[ev.rel].data
       ELSE source_root[ev.rel].ex
            => /\ target_root'[ev.rel].ex
               /\ target_root'[ev.rel].data =
                    IF IsTextFile(ev.rel)
                    THEN NormalizeBytes(source_root[ev.rel].data, eol_normalize)
                    ELSE source_root[ev.rel].data

\* C16: executing a source event against the target makes the target
\* mirror the source for the affected path: after 'created' or 'modified'
\* the target file holds the source content, with the line endings of the
\* EOL policy when the file is text; after 'deleted' the target path is
\* absent; after 'moved' the old target path is absent and the new one is
\* present with the same content.
EventApplication ==
  [][\A ev \in ow_batch : ow_batch' = ow_batch \ {ev} => Mirrored(ev)]_vars

\* the events a scan has to apply, given the cache and its snapshot
ScanEvents(before, current) ==
  {<<"created", p>> : p \in {q \in OwPaths : current[q] # 0 /\ before[q] = 0}}
  \cup {<<"modified", p>> : p \in {q \in OwPaths :
                         current[q] # 0 /\ before[q] # 0 /\ current[q] # before[q]}}
  \cup {<<"deleted", p>> : p \in {q \in OwPaths : current[q] = 0 /\ before[q] # 0}}

\* the filtered source paths with their mtimes
Snapshot ==
  [p \in OwPaths |->
     IF source_root[p].ex /\ ~ShouldExclude(p) THEN source_root[p].mtime ELSE 0]

ScanInterrupted ==
  /\ scan.pc = "interrupted"
  /\ scan.applied # {}

\* the clients whose connection is up
LiveSessions == {c \in Clients : clients[c] = "live"}

\* C19: an SSHTransfer holds at most one live session at any time, also
\* when several threads run ensure_connected at once on a dead transport,
\* and a thread whose ensure_connected returned without error finds both
\* the SSH client and the SFTP channel set at its operation.
SingleSession ==
  /\ Cardinality(LiveSessions) <= 1
  /\ \A t \in SshThreads : At(t, "call") => ssh # 0 /\ sftp # 0

\* the threads inside an SFTP session call
InSftp == {t \in SshThreads : At(t, "in_sftp")}

\* C20: no two threads are inside an SFTP session call of one SSHTransfer
\* at the same time, and every such call is made by the holder of the
\* transport's re-entrant mutex.
IoSerialization ==
  /\ Cardinality(InSftp) <= 1
  /\ \A t \in InSftp : io_lock.owner = t /\ io_lock.depth >= 1

\* one thread inside a session call while the other waits for the mutex
SftpCallContended ==
  \E t, u \in SshThreads :
    /\ t # u
    /\ At(t, "in_sftp")
    /\ At(u, "ensured")
    /\ ~IoLockFree(u)

\* the decision for a row under the rule of the dispatcher
RuleChanged(row, s) ==
  row.seen[s] # 0 /\ (row.seen[s] > row.last_sync_at \/ row.last_sync_at = 0)

RuleWinner(row) ==
  LET a == RuleChanged(row, "a")
      b == RuleChanged(row, "b")
  IN IF a /\ ~b THEN "a"
     ELSE IF b /\ ~a THEN "b"
     ELSE IF row.seen["a"] > row.seen["b"] THEN "a"
     ELSE IF row.seen["b"] > row.seen["a"] THEN "b"
     ELSE "a"

\* C21: the dispatcher decides a row by its seen_at stamps: a side has
\* changed when its seen_at is set and is later than last_sync_at or
\* last_sync_at is unset; a path with no changed side is skipped; one changed
\* side is the winner; of two changed sides the one seen later wins, and side
\* a wins a tie; the sync runs from the winner to the other side.
DecisionRule ==
  [][\A p \in Paths :
       (bpc = "prepare" /\ p \in toPrepare /\ toPrepare' = toPrepare \ {p}
        /\ initDone /\ cache[p].has)
       => IF ~RuleChanged(cache[p], "a") /\ ~RuleChanged(cache[p], "b")
          THEN ss'[p] = ss[p]
          ELSE /\ ss'[p].pc = "ready"
               /\ ss'[p].path = p
               /\ ss'[p].winner = RuleWinner(cache[p])]_vars

\* a prepared task for a row whose sides both changed at the same time
TieDecidedForA ==
  \E p \in Paths :
    /\ ss[p].pc = "ready"
    /\ ss[p].winner = "a"
    /\ RuleChanged(cache[p], "a") /\ RuleChanged(cache[p], "b")
    /\ cache[p].seen["a"] = cache[p].seen["b"]


\* the step of a sync action that starts to overwrite the loser's file
Overwrites(a) == ss[a].pc = "copy" /\ ss'[a].pc = "fill"

\* C22: whenever a sync action runs with a present winner and a loser whose
\* file is present, not tombstoned and differs in content from the winner's,
\* a copy of the loser's current file exists under the loser's backup
\* directory, at <ts>/<rel_path>, before the file is overwritten.
BackupBeforeOverwrite ==
  [][\A a \in Actors :
       LET t == ss[a]
           w == t.winner
           l == Other(w)
           p == t.path
       IN (/\ Overwrites(a)
           /\ fs[w][p].ex /\ fs[l][p].ex
           /\ ~cache[p].deleted[l]
           /\ fs[l][p].data # fs[w][p].data)
          => \E f \in backup'[l] :
               f.ts = t.now /\ f.path = p /\ f.data = fs[l][p].data]_vars


\* the row holds equal hashes for two live sides of the path
Equivalent(p) ==
  /\ cache[p].meta["a"].ok /\ cache[p].meta["b"].ok
  /\ ~cache[p].deleted["a"] /\ ~cache[p].deleted["b"]
  /\ cache[p].meta["a"].hash # NoHash
  /\ cache[p].meta["a"].hash = cache[p].meta["b"].hash

\* C23: when a sync action runs with a present winner and a present,
\* non-tombstoned loser whose content is equivalent to the winner's (equal
\* hashes), no file is written, copied, uploaded or backed up on the loser
\* endpoint.
NoTransferWhenEquivalent ==
  [][\A a \in Actors :
       LET t == ss[a]
           l == Other(t.winner)
           p == t.path
       IN (/\ t.pc = "copy" /\ ss'[a] # t
           /\ ~t.differs
           /\ Equivalent(p)
           /\ fs["a"][p].ex /\ fs["b"][p].ex
           /\ fs["a"][p].data = fs["b"][p].data)
          => fs'[l] = fs[l] /\ backup'[l] = backup[l]]_vars

\* C24: in a sync action the pair (loser, rel_path) is marked suppressed
\* before the write, the move or the delete on the loser endpoint starts.
SuppressedBeforeWrite ==
  [][\A a \in Actors :
       LET t == ss[a]
           l == Other(t.winner)
           p == t.path
       IN (t.pc \in {"trash", "copy"} /\ ss'[a] # t /\ fs'[l][p] # fs[l][p])
          => IsSuppressed(l, p)]_vars



\* C25: every file operation of a user-triggered full sync of a running
\* two-way task is carried out by a worker of the batch dispatcher while the
\* syncing flag is set.
FullSyncDispatched ==
  InFlight("init") => syncing /\ bpc = "run"


\* C26: a full sync that the runner's stop() interrupts while paths are
\* still ahead applies no further path and returns statistics with
\* aborted = TRUE, for a one-way task with a local or an SSH target and for a
\* two-way task.
FullSyncCancellation ==
  (halted.stopped /\ walk.pc = "returned")
    => walk.stats.aborted /\ halted.applied = 0


\* The last sync action of the path has returned through its except branch
\* with a row 'failed' in sync_logs, and the row still has side s as the
\* changed side that wins.
FailedFor(p, s) ==
  /\ ss[p].pc = "done" /\ ss[p].logs = <<"failed">>
  /\ cache[p].has
  /\ RuleChanged(cache[p], s)
  /\ RuleWinner(cache[p]) = s

\* this step is an observation of the path on the side: a listed file of a
\* poller's scan, or a notice of the watcher, passes _handle_meta_change
ObservedOn(s, p) ==
  \/ poll[s].pc = "scan" /\ p \in poll[s].todo /\ p \notin poll'[s].todo
  \/ wh[s].pc = "handle" /\ wh[s].path = p /\ wh'[s].pc = "idle"

\* C27: Retry after failure.  After a sync action of a path has failed, the
\* next observation of the path on the winner side enqueues the path again.
RetryAfterFailure ==
  [][\A s \in Sides, p \in Paths :
       (FailedFor(p, s) /\ ObservedOn(s, p)) => p \in Range(queue')]_vars


\* C28: Already-reflected notices do not trigger sync.  A deletion notice
\* for a side that is tombstoned with empty meta changes nothing; a present
\* notice on a local endpoint whose size and mtime equal the recorded meta
\* changes nothing; a present notice whose recomputed hash equals the
\* recorded hash updates the side's meta and seen_at and persists the row;
\* in none of the three cases is the path enqueued.
AlreadyReflected ==
  [][\A s \in Sides, p \in Paths :
       LET row == cache[p]
           byWatcher == wh[s].pc = "handle" /\ wh[s].path = p /\ wh'[s].pc = "idle"
           byScan == poll[s].pc = "scan" /\ p \in poll[s].todo /\ p \notin poll'[s].todo
           byMissing == /\ poll[s].pc = "scan" /\ poll[s].todo = {}
                        /\ p \in poll[s].known \ poll[s].seenp
                        /\ p \notin poll'[s].known
           deleted == (byWatcher /\ wh[s].deleted) \/ byMissing
           present == (byWatcher /\ ~wh[s].deleted) \/ byScan
           meta == IF byWatcher THEN wh[s].meta ELSE poll[s].listing[p]
           seen_at == IF byWatcher THEN wh[s].seen ELSE poll[s].now
           untouched == cache'[p] = row /\ store'[p] = store[p] /\ queue' = queue
       IN /\ (deleted /\ row.deleted[s] /\ ~row.meta[s].ok) => untouched
          /\ (/\ present /\ etype[s] = "local" /\ row.meta[s].ok
              /\ meta.size = row.meta[s].size /\ meta.mtime = row.meta[s].mtime)
               => untouched
          /\ (/\ present /\ MetaChanged(row.meta[s], meta)
              /\ row.meta[s].hash # NoHash /\ ComputeHash(s, p) = row.meta[s].hash)
               => /\ cache'[p].meta[s] = [meta EXCEPT !.hash = ComputeHash(s, p)]
                  /\ cache'[p].seen[s] = seen_at
                  /\ store'[p] = cache'[p]
                  /\ queue' = queue]_vars

\* A user has rewritten a file with the content it had; the notice of the
\* rewrite was recorded and saved, and nothing was enqueued.
ReflectedNoticeSaved ==
  \E s \in Sides, p \in Paths :
    /\ edits = 1
    /\ cache[p].last_sync_at # 0
    /\ cache[p].seen[s] > cache[p].last_sync_at
    /\ fs[s][p].ex
    /\ fs[s][p].mtime > cache[p].last_sync_at
    /\ cache[p].meta[s] = [GetMeta(s, p) EXCEPT !.hash = ComputeHash(s, p)]
    /\ cache[p].meta[Other(s)].hash = cache[p].meta[s].hash
    /\ store[p] = cache[p]
    /\ queue = <<>> /\ toPrepare = {} /\ bpc = "wait" /\ NoSyncOf(p)
    /\ events = {} /\ wh[s].pc = "idle"


\* the index of the last event of a rel_path in a queue of events
LastIndex(q, rel) ==
  CHOOSE i \in DOMAIN q : q[i].rel = rel /\ \A k \in (i + 1)..Len(q) : q[k].rel # rel

PendingDistinct ==
  /\ \A i, j \in DOMAIN queue : queue[i] = queue[j] => i = j
  /\ \A i, j \in DOMAIN batch_queue : batch_queue[i] = batch_queue[j] => i = j


\* the workers of a batch are executing (lines 853-868)
BatchInFlight == bpc = "run"

\* the flag is set while the workers execute and cleared when the batch ends
FlagFollowsBatch ==
  [][/\ BatchInFlight => syncing
     /\ (BatchInFlight /\ ~BatchInFlight') => ~syncing'
     /\ (~BatchInFlight /\ BatchInFlight') => syncing']_vars

\* a poller tick that finds the flag set starts no scan
TickBacksOff ==
  [][\A s \in Sides : (syncing /\ poll[s].pc = "idle") => poll'[s].pc = "idle"]_vars

\* C30: Poller back-off during a batch.  The syncing flag is set for the
\* whole time the workers of a batch execute and cleared when the batch
\* ends; a poller tick that observes the flag starts no scan; no step of a
\* poller's scan runs while a batch is in flight.
PollerBackoff ==
  [][/\ BatchInFlight => syncing
     /\ (BatchInFlight /\ ~BatchInFlight') => ~syncing'
     /\ \A s \in Sides : (syncing /\ poll[s].pc = "idle") => poll'[s].pc = "idle"
     /\ BatchInFlight => poll' = poll]_vars


\* C31: Local watcher filtering.  Every event the local watcher passes to
\* the runner names only paths the path filter accepts: its source path
\* and, for a moved event, its destination path.
WatcherFiltering ==
  \A i \in DOMAIN ow_queue :
    /\ ShouldProcess(ow_queue[i].rel)
    /\ ow_queue[i].type = "moved" => ShouldProcess(ow_queue[i].dest)


\* every accepted source file is on the target with its content, with the
\* line endings of the policy when it is text; no other file is there
TargetMirrorsSource ==
  \A p \in OwPaths :
    ~ShouldExclude(p) =>
      IF source_root[p].ex
      THEN /\ target_root[p].ex
           /\ target_root[p].data =
                IF IsTextFile(p)
                THEN NormalizeBytes(source_root[p].data, eol_normalize)
                ELSE source_root[p].data
      ELSE ~target_root[p].ex

\* C32: One-way eventual consistency despite lost events.  Once the source
\* tree has stopped changing, the tail scan brings the target to mirror the
\* source, also after lost events and transient failures of sync attempts.
EventualMirror == <>[]TargetMirrorsSource


\* C33: First-run baseline is not skipped by a startup race.  On the first
\* run of a two-way task (no row persisted when start() is called) the
\* background initialisation goes on to the baseline once it has loaded the
\* rows, also when a watcher notice was handled before the load.
BaselineNotSkipped ==
  [][(ipc = "load" /\ ipc' # "load") => ipc' = "list"]_vars


\* a row holds an observation of a side that no sync has reflected yet
Unreflected(p) ==
  /\ cache[p].has
  /\ \E s \in Sides : cache[p].seen[s] > cache[p].last_sync_at

\* C34: No observation is stranded.  An observation recorded in a row with
\* a seen_at greater than last_sync_at is eventually picked up by a worker of
\* the dispatcher (or reflected), without a further change of the file; the
\* notices accepted before _init_done is set are no exception.
NoObservationStranded ==
  \A p \in Paths : Unreflected(p) ~> (ss[p].pc # "idle" \/ ~Unreflected(p))


\* C35: Write-through state cache.  Every section under the lock of the
\* runner is one step, so the lock is free in every state: the row the cache
\* holds for a path is the row the store holds.
WriteThroughCache ==
  \A p \in Paths : cache[p] = store[p]


\* C36: Success means the file operations happened.  A sync action that
\* commits a tombstone or a refreshed meta of the loser, and logs 'success',
\* follows no failed move to trash, backup or copy on the loser's endpoint,
\* local or SSH.
SuccessMeansDone ==
  [][\A a \in Actors :
       LET t == ss[a]
       IN (t.pc = "commit" /\ ss'[a].pc # "commit" /\ (t.newdel \/ t.newmeta.ok))
            => ~t.faulted]_vars


\* a row holds an observation of side s that no sync has reflected yet
UnreflectedSide(p, s) ==
  cache[p].has /\ cache[p].seen[s] > cache[p].last_sync_at

\* the two endpoints hold the same content at a path, or neither holds it
SidesAgree(p) ==
  /\ fs["a"][p].ex = fs["b"][p].ex
  /\ fs["a"][p].ex => fs["a"][p].data = fs["b"][p].data

\* C37: A forced full sync does not lose pending changes.  When the walk of
\* a full sync seeds the row of a path that holds an unreflected observation
\* of a side, the observation is still unreflected afterwards, or the two
\* sides agree: a pending deletion is not replaced by the other side's copy
\* and a both-present row is not reset with the change unpropagated.
FullSyncKeepsPending ==
  [][\A p \in Paths, s \in Sides :
       (ipc = "seed" /\ p \in itodo /\ itodo' = itodo \ {p} /\ UnreflectedSide(p, s))
         => (UnreflectedSide(p, s)' \/ SidesAgree(p)')]_vars


\* the runner objects at work on a task: the started ones and the
\* temporary ones that run a full sync
StartedOn(id) ==
  {i \in DOMAIN runner_obj : runner_obj[i].task = id /\ runner_obj[i].running}

TemporaryOn(id) ==
  {t \in Threads : call[t].pc = "temp" /\ call[t].task = id}

\* C38: One active runner instance per task.  At most one runner object is
\* at work on a task: a full sync requested through the manager never runs
\* on a temporary runner while a started runner of the task, or another
\* temporary runner of the task, is at work.
OneActiveRunner ==
  \A id \in TaskIds :
    TemporaryOn(id) # {} => Cardinality(StartedOn(id)) + Cardinality(TemporaryOn(id)) = 1


\* C39: Quiescence after stop.  Once stop() of a two-way runner has
\* returned (is_running is false), no batch is submitted to the workers and no
\* worker ends a sync action: no thread of the runner touches an endpoint or
\* the state rows any more.
QuiescenceAfterStop ==
  [][stop_pc = "done" => futures' = futures]_vars


\* the side has a poller, or a watcher streaming on an active session
Detecting ==
  \/ poll_threads > 0
  \/ watch_pc = "stream" /\ Active(ssh_client)

\* C40: Remote change detection survives a reconnect.  When the transport
\* of the endpoint ends up active for good, after sessions were lost and
\* re-established or the notification command has exited, and the thread of
\* the watcher has not given up, the side is detecting changes again and
\* again: it is never left for ever with neither a streaming watcher nor a
\* poller.
DetectionSurvives ==
  (<>[]Active(link) /\ [](watch_pc # "ended")) => []<>Detecting

====
